---- MODULE Spec2Model ----
(***************************************************************************)
(* gh-ping: the notification processing pipeline of the polling daemon.   *)
(*                                                                         *)
(* Spec        the daemon loop (runDaemon/poll) over a nondeterministic    *)
(*             feed, with the carry-over state (lastProcessedTime, the     *)
(*             workflow-pass cache, the viewer-login cache, the cursor).   *)
(* SpecReduce  the pure list transforms (reduceActivities,                 *)
(*             collapseMergeActivities) applied to bounded activity lists. *)
(*                                                                         *)
(* Dates are natural numbers (a tick of the clock); an absent optional     *)
(* field (undefined/null) is NONE; a null Date is NoTime.                  *)
(***************************************************************************)
EXTENDS Integers, Sequences, FiniteSets, TLC

\* ------------------------------------------------------------------ bounds

\* Clock ticks and timestamps range over 1..MaxTime.
MaxTime == 2
\* Poll cycles started in one run of the daemon.
MaxPolls == 2
\* Raw timeline items returned for one thread by one timeline fetch.
MaxTimeline == 2
\* Raw timeline items the feed produces in one run of the daemon; a timeline
\* returned again unchanged by the next poll is not counted twice.
MaxItems == 2
\* Length of the activity lists handed to the pure transforms in SpecReduce.
MaxLen == 3
\* How many times the reducer stages are applied to one list.
MaxApply == 2

\* Default poll interval fallback (seconds).
DEFAULT_POLL_INTERVAL_SEC == 60

NONE == "none"
NoTime == 0
Times == 1..MaxTime

\* ------------------------------------------------------------------ data

\* An Activity (schema.ts). count = 0 and preMergeCount = 0 stand for the
\* unset optional numbers (both are only ever tested for truthiness or
\* defaulted to 1 by the formatter).
Activity(event, createdAt, actor, state, committer, author, assignee, requestedTeam, body) ==
  [event |-> event, createdAt |-> createdAt, actor |-> actor, state |-> state,
   committer |-> committer, author |-> author, assignee |-> assignee,
   requestedTeam |-> requestedTeam, body |-> body,
   count |-> 0, preMergeCount |-> 0]

\* ------------------------------------------------------------------ reducer

\* getActivityGroupKey with the review state left out of the key.
getActivityGroupKeyNoState(activity) ==
  IF activity.event = "committed"
  THEN << (IF activity.committer # NONE THEN activity.committer
           ELSE IF activity.author # NONE THEN activity.author
           ELSE "unknown"), activity.event >>
  ELSE << (IF activity.actor # NONE THEN activity.actor ELSE "unknown"),
          activity.event >>

\* The group key `${actor}:${event}[:${state}]`, as the tuple of its parts.
getActivityGroupKey(activity) ==
  IF activity.event = "committed"
  THEN << (IF activity.committer # NONE THEN activity.committer
           ELSE IF activity.author # NONE THEN activity.author
           ELSE "unknown"), activity.event >>
  ELSE IF activity.event = "reviewed" /\ activity.state # NONE
  THEN << (IF activity.actor # NONE THEN activity.actor ELSE "unknown"),
          activity.event, activity.state >>
  ELSE << (IF activity.actor # NONE THEN activity.actor ELSE "unknown"),
          activity.event >>

\* The groups map after the first n activities (the forEach of
\* reduceActivities): key -> { activity, count, lastIndex }.
RECURSIVE GroupsAfter(_, _)
GroupsAfter(activities, n) ==
  IF n = 0 THEN << >>
  ELSE LET groups == GroupsAfter(activities, n - 1)
           activity == activities[n]
           key == getActivityGroupKey(activity)
       IN IF key \in {g.key : g \in {groups[i] : i \in DOMAIN groups}}
          THEN [i \in DOMAIN groups |->
                  IF groups[i].key = key
                  THEN [key |-> key, activity |-> activity,
                        count |-> groups[i].count + 1, lastIndex |-> n]
                  ELSE groups[i]]
          ELSE Append(groups, [key |-> key, activity |-> activity,
                               count |-> 1, lastIndex |-> n])

\* Array.sort by lastIndex (ascending) of the groups.
RECURSIVE SortByLastIndex(_)
SortByLastIndex(groups) ==
  IF groups = {} THEN << >>
  ELSE LET first == CHOOSE g \in groups : \A h \in groups : g.lastIndex <= h.lastIndex
       IN << first >> \o SortByLastIndex(groups \ {first})

\* A reducer that keeps the payload of each group's first occurrence.
reduceActivitiesKeepFirst(activities) ==
  LET groups == GroupsAfter(activities, Len(activities))
      firstOf(g) == CHOOSE i \in DOMAIN activities :
                      /\ getActivityGroupKey(activities[i]) = g.key
                      /\ \A j \in 1..(i - 1) : getActivityGroupKey(activities[j]) # g.key
      sorted == SortByLastIndex({groups[i] : i \in DOMAIN groups})
  IN [i \in DOMAIN sorted |->
        [activities[firstOf(sorted[i])] EXCEPT !.count = sorted[i].count]]

\* A reducer that leaves the groups in the order of their first appearance
\* (the insertion order of the Map, without the sort).
reduceActivitiesInsertionOrder(activities) ==
  LET groups == GroupsAfter(activities, Len(activities))
  IN [i \in DOMAIN groups |-> [groups[i].activity EXCEPT !.count = groups[i].count]]

\* A reducer that does not collapse at all: it only stamps count = 1.
reduceActivitiesNoCollapse(activities) ==
  [i \in DOMAIN activities |-> [activities[i] EXCEPT !.count = 1]]

\* reduceActivities: one record per group, the last occurrence's payload,
\* count = occurrences, ordered by last occurrence.
reduceActivities(activities) ==
  LET groups == GroupsAfter(activities, Len(activities))
      sorted == SortByLastIndex({groups[i] : i \in DOMAIN groups})
  IN [i \in DOMAIN sorted |-> [sorted[i].activity EXCEPT !.count = sorted[i].count]]

\* The index of the first 'merged' activity, 0 when there is none (findIndex,
\* shifted to the 1-based sequences).
findMergeIndex(activities) ==
  IF \E i \in DOMAIN activities : activities[i].event = "merged"
  THEN CHOOSE i \in DOMAIN activities :
         /\ activities[i].event = "merged"
         /\ \A j \in 1..(i - 1) : activities[j].event # "merged"
  ELSE 0

\* collapseMergeActivities that folds at the last merge instead of the first.
collapseMergeActivitiesAtLastMerge(activities) ==
  LET merges == {i \in DOMAIN activities : activities[i].event = "merged"}
      mergeIndex == IF merges = {} THEN 0
                    ELSE CHOOSE i \in merges : \A j \in merges : j <= i
  IN IF mergeIndex <= 1 THEN activities
     ELSE << [activities[mergeIndex] EXCEPT !.preMergeCount = mergeIndex - 1] >>
          \o SubSeq(activities, mergeIndex + 1, Len(activities))

\* collapseMergeActivities: fold what precedes the first merge into it.
collapseMergeActivities(activities) ==
  LET mergeIndex == findMergeIndex(activities)
      preMergeCount == mergeIndex - 1
  IN IF mergeIndex = 0 THEN activities
     ELSE IF preMergeCount = 0 THEN activities
     ELSE << [activities[mergeIndex] EXCEPT !.preMergeCount = preMergeCount] >>
          \o SubSeq(activities, mergeIndex + 1, Len(activities))

\* ------------------------------------------------------------------ formatter

\* The event kinds formatActivityTitle has a template for; every other kind
\* falls to the default branch and yields the empty title.
TitledEvents ==
  {"commented", "line-commented", "reviewed", "review_requested", "assigned",
   "merged", "closed", "reopened", "committed"}

\* formatActivityNotification returns null exactly when the title is empty.
formatActivityNotificationIsNull(activity) == activity.event \notin TitledEvents

\* config.userAliases and config.repoAliases of the model.
UserAliases == ("bob" :> "Bobby")

RepoAliases == << >>

\* getUserDisplayName: the alias if there is one, the login otherwise.
getUserDisplayName(login, aliases) ==
  IF login \in DOMAIN aliases THEN aliases[login] ELSE login

\* getRepoDisplayName: the alias, or the name after the owner.
getRepoDisplayName(fullName, aliases) ==
  IF fullName \in DOMAIN aliases THEN aliases[fullName]
  ELSE IF fullName = "acme/app" THEN "app"
  ELSE fullName

\* The count the title is chosen by: 1 when the activity has none.
countOf(activity) == IF activity.count = 0 THEN 1 ELSE activity.count

\* formatActivityTitle. A title is the tuple of the parts of its template
\* string; the empty tuple is the empty string.
formatActivityTitle(activity, actor, prTitle, aliases, viewerLogin) ==
  LET count == countOf(activity)
      committerName == IF activity.committer # NONE
                       THEN getUserDisplayName(activity.committer, aliases) ELSE NONE
      authorName == IF activity.author # NONE
                    THEN getUserDisplayName(activity.author, aliases) ELSE NONE
      commitWord == IF count > 1 THEN "commits" ELSE "a commit"
  IN CASE activity.event = "commented" ->
            IF count > 1 THEN << actor, "left comments on", prTitle >>
            ELSE << actor, "commented on", prTitle >>
       [] activity.event = "line-commented" ->
            IF count > 1 THEN << actor, "left code comments on", prTitle >>
            ELSE << actor, "commented on code in", prTitle >>
       [] activity.event = "reviewed" ->
            (CASE activity.state = "approved" -> << actor, "approved", prTitle >>
               [] activity.state = "changes_requested" ->
                    << actor, "requested changes on", prTitle >>
               [] activity.state = "commented" ->
                    IF count > 1 THEN << actor, "left reviews on", prTitle >>
                    ELSE << actor, "left a review on", prTitle >>
               [] activity.state = "dismissed" ->
                    IF count > 1 THEN << actor, "dismissed reviews on", prTitle >>
                    ELSE << actor, "dismissed a review on", prTitle >>
               [] OTHER -> << actor, "reviewed", prTitle >>)
       [] activity.event = "review_requested" ->
            IF activity.requestedTeam # NONE
            THEN << actor, "requested review from @", activity.requestedTeam,
                    "on", prTitle >>
            ELSE << actor, "requested your review on", prTitle >>
       [] activity.event = "assigned" ->
            IF activity.assignee # NONE
            THEN IF activity.actor # NONE /\ activity.actor = activity.assignee
                 THEN << actor, "assigned themselves to", prTitle >>
                 ELSE IF viewerLogin # NONE /\ activity.assignee = viewerLogin
                 THEN << actor, "assigned you to", prTitle >>
                 ELSE << actor, "assigned",
                         getUserDisplayName(activity.assignee, aliases), "to",
                         prTitle >>
            ELSE << actor, "assigned someone to", prTitle >>
       [] activity.event = "merged" ->
            IF activity.preMergeCount # 0
            THEN << actor, "merged", prTitle, "+ earlier activities" >>
            ELSE << actor, "merged", prTitle >>
       [] activity.event = "closed" -> << actor, "closed", prTitle >>
       [] activity.event = "reopened" -> << actor, "reopened", prTitle >>
       [] activity.event = "committed" ->
            IF committerName # NONE /\ authorName # NONE
                 /\ committerName # authorName
            THEN IF count > 1
                 THEN << authorName, "committed (via", committerName, ") on",
                         prTitle >>
                 ELSE << authorName, "committed (via", committerName, ") on",
                         prTitle >>
            ELSE IF committerName # NONE
            THEN << committerName, "pushed", commitWord, "to", prTitle >>
            ELSE IF authorName # NONE
            THEN << authorName, "pushed", commitWord, "to", prTitle >>
            ELSE IF count > 1 THEN << "Commits pushed to", prTitle >>
            ELSE << "New commits pushed to", prTitle >>
       [] OTHER -> << >>

\* String.trim on the comment texts of the model.
trim(text) == IF text = "  " THEN "" ELSE text

\* formatActivityBody: "in repo", with the comment text when there is one.
formatActivityBody(activity, repo) ==
  IF activity.body # NONE /\ trim(activity.body) # ""
  THEN << "in", repo, trim(activity.body) >>
  ELSE << "in", repo >>

\* The null result of formatActivityNotification.
NullNotification == [isNull |-> TRUE, title |-> << >>, body |-> << >>]

\* formatActivityNotification: null when the title is empty.
formatActivityNotification(thread, activity, aliases, viewerLogin) ==
  LET actor == getUserDisplayName(IF activity.actor # NONE THEN activity.actor
                                  ELSE "Someone", aliases)
      title == formatActivityTitle(activity, actor, thread.subject.title,
                                   aliases, viewerLogin)
  IN IF title = << >> THEN NullNotification
     ELSE [isNull |-> FALSE, title |-> title,
           body |-> formatActivityBody(
                      activity,
                      getRepoDisplayName(thread.repository, RepoAliases))]

\* ------------------------------------------------------------------ threads

\* The threads the feed knows. A thread's subject and repository do not
\* change between polls, so they are a function of the thread id.
ThreadIds == {"T1", "T2"}

\* subject.url as its last two path segments; a null url has no segment.
SubjectOf(id) ==
  IF id = "T1"
  THEN [type |-> "PullRequest", title |-> "Fix login bug",
        url |-> [segment |-> "pulls", number |-> 1]]
  ELSE [type |-> "CheckSuite", title |-> "workflow run failed for main branch",
        url |-> [segment |-> NONE, number |-> 0]]

\* transformNotification: the Thread built from a raw notification; its
\* activities start empty.
Thread(id, unread, updatedAt) ==
  [id |-> id, subject |-> SubjectOf(id), repository |-> "acme/app",
   unread |-> unread, updatedAt |-> updatedAt, activities |-> << >>]

\* extractBranchFromSubject on the subject titles of the model: the regex
\* /workflow run (failed|succeeded|cancelled) for ["']?(...)["']?( branch)?$/i.
extractBranchFromSubject(title) ==
  IF title = "workflow run failed for main branch" THEN "main" ELSE NONE

\* extractIssueNumber: the number after a trailing /issues/ or /pulls/,
\* null (0) otherwise. A last segment that is not all digits is number -1.
extractIssueNumber(url) ==
  IF url.segment = NONE THEN 0
  ELSE IF url.segment \in {"issues", "pulls"} /\ url.number >= 0 THEN url.number
  ELSE 0

\* ------------------------------------------------------------------ predicates

\* User predicates are code from the config file. The model knows them by
\* name; each returns "true", "false" or "throw" on a filter input.
ThreadFilterResult(filter, thread) ==
  CASE filter = "isCheckSuite" ->
         IF thread.subject.type = "CheckSuite" THEN "true" ELSE "false"
    [] filter = "isWorkflowRun" ->
         IF thread.subject.type = "WorkflowRun" THEN "true" ELSE "false"
    [] filter = "isPullRequest" ->
         IF thread.subject.type = "PullRequest" THEN "true" ELSE "false"
    [] filter = "throws" -> "throw"
    [] OTHER -> "false"

ActivityFilterResult(filter, thread, activity) ==
  CASE filter = "isBot" ->
         IF activity.actor = "dependabot[bot]" THEN "true" ELSE "false"
    [] filter = "isEarly" ->
         IF activity.createdAt <= 1 THEN "true" ELSE "false"
    [] filter = "throws" -> "throw"
    [] OTHER -> "false"

\* shouldSkipThread where an exception leaves the loop (no try/catch).
RECURSIVE shouldSkipThreadNoCatch(_, _)
shouldSkipThreadNoCatch(thread, filters) ==
  IF filters = << >> THEN FALSE
  ELSE LET r == ThreadFilterResult(Head(filters), thread)
       IN IF r = "true" THEN TRUE
          ELSE IF r = "throw" THEN FALSE
          ELSE shouldSkipThreadNoCatch(thread, Tail(filters))

\* shouldSkipThread: true as soon as one filter returns true; a filter that
\* throws is logged and the loop goes on.
RECURSIVE shouldSkipThread(_, _)
shouldSkipThread(thread, filters) ==
  IF filters = << >> THEN FALSE
  ELSE LET r == ThreadFilterResult(Head(filters), thread)
       IN IF r = "true" THEN TRUE
          ELSE shouldSkipThread(thread, Tail(filters))

\* The filter loop of shouldSkipActivity.
RECURSIVE anyActivityFilter(_, _, _)
anyActivityFilter(thread, activity, filters) ==
  IF filters = << >> THEN FALSE
  ELSE LET r == ActivityFilterResult(Head(filters), thread, activity)
       IN IF r = "true" THEN TRUE
          ELSE anyActivityFilter(thread, activity, Tail(filters))

\* shouldSkipActivity without the rule for the viewer's own activities.
shouldSkipActivityNoSelf(thread, activity, filters, viewerLogin) ==
  anyActivityFilter(thread, activity, filters)

\* shouldSkipActivity: the viewer's own activities first, then the filters.
shouldSkipActivity(thread, activity, filters, viewerLogin) ==
  IF viewerLogin # NONE /\ activity.actor # NONE /\ activity.actor = viewerLogin
  THEN TRUE
  ELSE anyActivityFilter(thread, activity, filters)

\* filterThreads that leaves the skipped threads in the kept list as well.
filterThreadsSkippedStayKept(threads, filters) ==
  [kept |-> SelectSeq(threads, LAMBDA t : t.unread),
   skipped |-> SelectSeq(threads,
              LAMBDA t : t.unread /\ shouldSkipThread(t, filters))]

\* filterThreads that also sorts read threads into kept/skipped.
filterThreadsKeepRead(threads, filters) ==
  [kept |-> SelectSeq(threads, LAMBDA t : ~shouldSkipThread(t, filters)),
   skipped |-> SelectSeq(threads, LAMBDA t : shouldSkipThread(t, filters))]

\* filterThreads: unread threads only, in feed order, into kept and skipped.
filterThreads(threads, filters) ==
  [kept |-> SelectSeq(threads,
              LAMBDA t : t.unread /\ ~shouldSkipThread(t, filters)),
   skipped |-> SelectSeq(threads,
              LAMBDA t : t.unread /\ shouldSkipThread(t, filters))]

\* ------------------------------------------------- predicates that write

\* toThreadFilterInput: the view of a thread handed to the predicates.
toThreadFilterInput(thread) ==
  [id |-> thread.id,
   subject |-> [type |-> thread.subject.type, title |-> thread.subject.title],
   repository |-> thread.repository,
   unread |-> thread.unread,
   updatedAt |-> thread.updatedAt]

\* The properties of the thread view whose value is the thread's own object
\* and not a copy: updatedAt is the thread's Date; subject and repository
\* are new objects of primitives.
ThreadViewShared == {"updatedAt"}

\* toActivityFilterInput: the view of an activity handed to the predicates.
toActivityFilterInput(activity) ==
  [event |-> activity.event, createdAt |-> activity.createdAt,
   actor |-> activity.actor, state |-> activity.state,
   assignee |-> activity.assignee, requestedTeam |-> activity.requestedTeam]

\* The properties of the activity view whose value is the activity's own
\* object: the Date and the actor, assignee, reviewer and team objects are
\* assigned by reference.
ActivityViewShared ==
  {"createdAt", "actor", "assignee", "requestedReviewer", "requestedTeam"}

NoWrite == [on |-> NONE, path |-> << >>, value |-> NONE]

\* What a predicate of the model writes through its arguments before it
\* returns false: activity.actor.login = 'mallory'; thread.updatedAt.setTime
\* to tick 1; thread.subject.title = 'spam'; activity.event = 'closed'.
PredicateWrites(filter) ==
  CASE filter = "renamesActor" ->
         [on |-> "activity", path |-> << "actor", "login" >>, value |-> "mallory"]
    [] filter = "rewindsThread" ->
         [on |-> "thread", path |-> << "updatedAt", "setTime" >>, value |-> 1]
    [] filter = "retitles" ->
         [on |-> "thread", path |-> << "subject", "title" >>, value |-> "spam"]
    [] filter = "relabels" ->
         [on |-> "activity", path |-> << "event" >>, value |-> "closed"]
    [] OTHER -> NoWrite

\* The view after a write to it. In the model only subject is a nested
\* record; an actor or a Date is its login or its tick.
writeToView(view, write) ==
  IF write.path[1] = "subject"
  THEN [view EXCEPT !.subject = [@ EXCEPT ![write.path[2]] = write.value]]
  ELSE [view EXCEPT ![write.path[1]] = write.value]

\* The object behind the view after a write to the view: it changes when
\* the write goes into an object the view shares with it.
writeThrough(object, shared, write) ==
  IF Len(write.path) = 2 /\ write.path[1] \in shared
  THEN [object EXCEPT ![write.path[1]] = write.value]
  ELSE object

\* The loop of shouldSkipThread with the writes of the predicates: the
\* decision and the thread it leaves.
RECURSIVE runThreadFilters(_, _, _)
runThreadFilters(thread, input, filters) ==
  IF filters = << >> THEN [skip |-> FALSE, thread |-> thread]
  ELSE LET write == PredicateWrites(Head(filters))
           written == write.on = "thread"
           seen == IF written THEN writeToView(input, write) ELSE input
           after == IF written THEN writeThrough(thread, ThreadViewShared, write)
                    ELSE thread
       IN IF ThreadFilterResult(Head(filters), seen) = "true"
          THEN [skip |-> TRUE, thread |-> after]
          ELSE runThreadFilters(after, seen, Tail(filters))

\* The loop of shouldSkipActivity with the writes of the predicates: the
\* decision, and the thread and the activity it leaves.
RECURSIVE runActivityFilters(_, _, _, _, _)
runActivityFilters(thread, activity, threadInput, activityInput, filters) ==
  IF filters = << >>
  THEN [skip |-> FALSE, thread |-> thread, activity |-> activity]
  ELSE LET write == PredicateWrites(Head(filters))
           onThread == write.on = "thread"
           onActivity == write.on = "activity"
           seenThread == IF onThread THEN writeToView(threadInput, write)
                         ELSE threadInput
           seenActivity == IF onActivity THEN writeToView(activityInput, write)
                           ELSE activityInput
           afterThread == IF onThread
                          THEN writeThrough(thread, ThreadViewShared, write)
                          ELSE thread
           afterActivity == IF onActivity
                            THEN writeThrough(activity, ActivityViewShared, write)
                            ELSE activity
       IN IF ActivityFilterResult(Head(filters), seenThread, seenActivity) = "true"
          THEN [skip |-> TRUE, thread |-> afterThread, activity |-> afterActivity]
          ELSE runActivityFilters(afterThread, afterActivity, seenThread,
                                  seenActivity, Tail(filters))

\* Step 4 of poll for one thread from activity k on, with the writes of the
\* predicates: the thread with the activities that are kept.
RECURSIVE filterActivitiesOf(_, _, _, _, _)
filterActivitiesOf(thread, k, keep, filters, login) ==
  IF k > Len(thread.activities) THEN [thread EXCEPT !.activities = keep]
  ELSE LET activity == thread.activities[k]
           own == login # NONE /\ activity.actor # NONE /\ activity.actor = login
           ran == runActivityFilters(thread, activity, toThreadFilterInput(thread),
                                     toActivityFilterInput(activity), filters)
       IN IF own
          THEN filterActivitiesOf(thread, k + 1, keep, filters, login)
          ELSE filterActivitiesOf(ran.thread, k + 1,
                                  IF ran.skip THEN keep ELSE Append(keep, ran.activity),
                                  filters, login)

\* ------------------------------------------------------------------ enricher

\* A raw timeline item of the feed: the fields transformTimelineItem reads.
\* at = NoTime when the item carries no timestamp (submitted_at or the first
\* comment's created_at is absent).
RawItem(event, at, login) ==
  [event |-> event, at |-> at, login |-> login, state |-> NONE,
   committer |-> NONE, author |-> NONE, assignee |-> NONE,
   requestedTeam |-> NONE, body |-> NONE]

\* The event kinds of the dispatch table of transformTimelineItem.
TrackedEvents ==
  {"committed", "reviewed", "assigned", "unassigned", "review_requested",
   "review_request_removed", "commented", "line-commented", "closed",
   "reopened", "merged"}

\* transformTimelineItem for a tracked kind; clock is the value of new Date().
transformTimelineItem(item, clock) ==
  CASE item.event = "committed" ->
         Activity("committed", item.at, NONE, NONE, item.committer, item.author,
                  NONE, NONE, item.body)
    [] item.event = "reviewed" ->
         Activity("reviewed", IF item.at # NoTime THEN item.at ELSE clock,
                  item.login, item.state, NONE, NONE, NONE, NONE, item.body)
    [] item.event \in {"assigned", "unassigned"} ->
         Activity(item.event, item.at, item.login, NONE, NONE, NONE,
                  item.assignee, NONE, NONE)
    [] item.event \in {"review_requested", "review_request_removed"} ->
         Activity(item.event, item.at, item.login, NONE, NONE, NONE, NONE,
                  item.requestedTeam, NONE)
    [] item.event = "commented" ->
         Activity(item.event, item.at, item.login, NONE, NONE, NONE, NONE, NONE,
                  item.body)
    [] item.event = "line-commented" ->
         Activity(item.event, IF item.at # NoTime THEN item.at ELSE clock,
                  item.login, NONE, NONE, NONE, NONE, NONE, item.body)
    [] OTHER ->
         Activity(item.event, item.at, item.login, NONE, NONE, NONE, NONE, NONE,
                  NONE)

\* transformTimeline: shape the tracked items, then drop a trailing 'closed'
\* that directly follows a 'merged'.
transformTimeline(items, clock) ==
  LET tracked == SelectSeq(items, LAMBDA it : it.event \in TrackedEvents)
      activities == [i \in DOMAIN tracked |-> transformTimelineItem(tracked[i], clock)]
      n == Len(activities)
  IN IF n >= 2 /\ activities[n].event = "closed" /\ activities[n - 1].event = "merged"
     THEN SubSeq(activities, 1, n - 1)
     ELSE activities

\* enrichThread without the subject kind guard.
needsTimelineAnyKind(thread) == extractIssueNumber(thread.subject.url) # 0

\* enrichThread decides to fetch the timeline: Issue or PullRequest with an
\* issue number (a number of 0 is falsy and counts as none).
needsTimeline(thread) ==
  /\ thread.subject.type \in {"Issue", "PullRequest"}
  /\ extractIssueNumber(thread.subject.url) # 0

\* ------------------------------------------------------------------ feed

\* The login of the authenticated user.
Viewer == "octocat"

\* What fetchNotifications can return: each known thread absent or present
\* with some updatedAt, in a fixed order. The pull request may have been read
\* in the meantime; the CI thread is always unread.
ThreadChoices(id) ==
  {<< >>} \cup {<< Thread(id, unread, updatedAt) >> :
                  unread \in (IF id = "T1" THEN BOOLEAN ELSE {TRUE}),
                  updatedAt \in Times}

FeedResponses ==
  {first \o second : first \in ThreadChoices("T1"), second \in ThreadChoices("T2")}

\* The raw timeline items of the feed.
FeedItems ==
  {RawItem("commented", at, "alice") : at \in Times}
    \cup {RawItem("commented", at, Viewer) : at \in Times}
    \cup {RawItem("merged", at, "dependabot[bot]") : at \in Times}

\* The feed returns a timeline oldest first.
Chronological(items) ==
  \A i \in 1..(Len(items) - 1) : items[i].at <= items[i + 1].at

Timelines ==
  {items \in UNION {[1..n -> FeedItems] : n \in 0..MaxTimeline} : Chronological(items)}

\* One timeline fetch: it throws, or it returns a timeline.
TimelineOutcomes ==
  {[ok |-> FALSE, items |-> << >>]} \cup {[ok |-> TRUE, items |-> tl] : tl \in Timelines}

\* One fetchLatestWorkflowRun: it throws, or returns null or a run summary.
RunOutcomes ==
  {[ok |-> FALSE, status |-> NONE, conclusion |-> NONE],
   [ok |-> TRUE, status |-> NONE, conclusion |-> NONE],
   [ok |-> TRUE, status |-> "completed", conclusion |-> "failure"],
   [ok |-> TRUE, status |-> "completed", conclusion |-> "success"]}

CacheKeys == {<< "acme/app", "main" >>}

\* The default export of the config files the daemon is started with
\* (GhPingUserConfig). An optional boolean is "true", "false" or, when the
\* file does not mention it, "undefined".
UserConfigs ==
  {[skipThreads |-> << >>, skipActivities |-> << >>,
    markSkippedAsRead |-> "undefined", collapseMergedPrActivities |-> "undefined"],
   [skipThreads |-> << "throws", "isCheckSuite" >>,
    skipActivities |-> << "throws", "isBot", "isEarly" >>,
    markSkippedAsRead |-> "true", collapseMergedPrActivities |-> "false"],
   [skipThreads |-> << "isPullRequest", "throws" >>, skipActivities |-> << >>,
    markSkippedAsRead |-> "true", collapseMergedPrActivities |-> "true"],
   [skipThreads |-> << "isPullRequest", "isCheckSuite" >>, skipActivities |-> << >>,
    markSkippedAsRead |-> "true", collapseMergedPrActivities |-> "undefined"]}

\* JavaScript truthiness of an optional boolean.
Truthy(value) == value = "true"

\* applyDefaults: the GhPingConfig built from the user config. The object it
\* returns has no collapseMergedPrActivities property, whatever the user
\* config says, so reading it gives undefined.
applyDefaults(given) ==
  [skipThreads |-> given.skipThreads,
   markSkippedAsRead |-> IF given.markSkippedAsRead = "undefined" THEN FALSE
                         ELSE Truthy(given.markSkippedAsRead),
   skipActivities |-> given.skipActivities,
   collapseMergedPrActivities |-> "undefined"]

\* A JavaScript value of a config file, as far as validateConfig looks at it:
\* its type ("undefined" for an absent property) and, for an array, the
\* types of its elements.
Value(type) == [type |-> type, items |-> << >>]

ArrayOf(items) == [type |-> "array", items |-> items]

\* The properties of GhPingUserConfig.
ConfigFields ==
  {"skipThreads", "markSkippedAsRead", "skipActivities", "repoAliases",
   "userAliases", "sound", "markAsReadOnClick", "collapseMergedPrActivities"}

\* The config file that exports {}.
EmptyConfig ==
  [type |-> "object", fields |-> [f \in ConfigFields |-> Value("undefined")]]

\* One message of validateConfig: about the config, a property, or the
\* element of a property at an index (-1 when it is about no element).
Message(field, index, problem) ==
  [field |-> field, index |-> index, problem |-> problem]

\* The messages of the loop over the elements of a predicate array.
RECURSIVE functionErrors(_, _, _)
functionErrors(field, items, i) ==
  IF i > Len(items) THEN << >>
  ELSE (IF items[i] # "function"
        THEN << Message(field, i - 1, "must be a function") >> ELSE << >>)
       \o functionErrors(field, items, i + 1)

\* The check of skipThreads and of skipActivities.
arrayErrors(field, value) ==
  IF value.type = "undefined" THEN << >>
  ELSE IF value.type # "array" THEN << Message(field, -1, "must be an array") >>
  ELSE functionErrors(field, value.items, 1)

\* The check of one boolean property.
booleanErrors(field, value) ==
  IF value.type # "undefined" /\ value.type # "boolean"
  THEN << Message(field, -1, "must be a boolean") >> ELSE << >>

\* validateConfig: the error messages, in the order they are pushed.
validateConfig(cfg) ==
  IF cfg.type \in {"null", "string"}
  THEN << Message("config", -1, "must be an object") >>
  ELSE arrayErrors("skipThreads", cfg.fields.skipThreads)
       \o arrayErrors("skipActivities", cfg.fields.skipActivities)
       \o booleanErrors("markSkippedAsRead", cfg.fields.markSkippedAsRead)
       \o booleanErrors("sound", cfg.fields.sound)
       \o booleanErrors("markAsReadOnClick", cfg.fields.markAsReadOnClick)

\* The configurations the daemon runs with (after applyDefaults).
Configs == {applyDefaults(given) : given \in UserConfigs}

\* ------------------------------------------------------------------ state

VARIABLES
  now,                \* the wall clock
  config,             \* the loaded configuration
  userConfig,         \* the user config it was loaded from
  pc,                 \* where the daemon loop is
  polls,              \* poll cycles started so far
  lastProcessedTime,  \* daemon.ts: the delivery watermark, NoTime for null
  workflowPassCache,  \* daemon.ts: cache key -> boolean
  cachedViewerLogin,  \* client: "undefined", NONE (null) or a login
  viewerLookups,      \* client: the GET user requests issued so far
  since,              \* runDaemon: the feed cursor, NoTime for null
  pollIntervalSec,    \* runDaemon: the delay before the next poll, in seconds
  requestStartTime,   \* poll: new Date() at the start of the cycle
  rawThreads,         \* poll: the fetched threads
  kept,               \* poll: the kept threads, with their activities
  skipped,            \* poll: the skipped threads
  viewerLogin,        \* poll: the viewer login used by this cycle
  timelineFetches,    \* thread ids whose timeline this cycle fetched
  results,            \* thread id -> what the timeline fetch of this cycle did
  itemsLeft,          \* timeline items the feed may still produce
  reduced,            \* thread id -> the activities after filter and reduce
  markReadCalls,      \* the markThreadAsRead calls of this cycle, in order
  sent,               \* every sendNotification call so far, in order
  outcome,            \* how the latest cycle ended: "none", "completed", "failed"
  lastCycle,          \* the input and outcome of the cycle before the latest
  seenBefore,         \* the latest timestamp the cycles before the latest saw
  input,              \* SpecReduce: the activity list under test
  output,             \* SpecReduce: what the transforms made of it
  applied,            \* SpecReduce: the transforms applied, in order
  ciThread,           \* SpecWorkflow: the kept thread under test
  ciCache,            \* SpecWorkflow: workflowPassCache before the loop
  ciRun,              \* SpecWorkflow: what fetchLatestWorkflowRun would do
  ciDone,             \* SpecWorkflow: what the notify loop did
  ciApplied,          \* SpecWorkflow: the notify loop has run
  fThread,            \* SpecFilter: the thread as fetched and enriched
  fSkipThreads,       \* SpecFilter: config.skipThreads
  fSkipActivities,    \* SpecFilter: config.skipActivities
  fLogin,             \* SpecFilter: the viewer login
  fAfter,             \* SpecFilter: the thread as the filter stages leave it
  fSkipped,           \* SpecFilter: shouldSkipThread returned true
  fStage,             \* SpecFilter: the filter stages that have run
  fmtActivity,        \* SpecFormat: the activity to format
  fmtViewer,          \* SpecFormat: the viewer login
  fmtResult,          \* SpecFormat: what formatActivityNotification returned
  fmtDone,            \* SpecFormat: formatActivityNotification has been called
  vConfig,            \* SpecValidate: the default export of a config file
  vErrors,            \* SpecValidate: what validateConfig returned
  vDone,              \* SpecValidate: validateConfig has been called
  xPollInterval,      \* SpecInterval: the X-Poll-Interval header of the latest poll that returned
  pollReturned,       \* SpecInterval: some poll has returned
  delayMs,            \* SpecInterval: the delay of the latest setTimeout, in milliseconds
  eThread,            \* SpecEnrich: the kept thread under test
  eResult,            \* SpecEnrich: what fetchLatestActivities would do
  eFetched,           \* SpecEnrich: the timeline fetch was issued
  eAfter,             \* SpecEnrich: thread.activities after enrichThread
  eDone,              \* SpecEnrich: enrichThread has been called
  startPc,            \* SpecStart: where each gh-ping start invocation is
  daemonState,        \* SpecStart: the detached daemon process each invocation spawned
  pidFile,            \* SpecStart: the pid the PID file holds, NoPid when there is no file
  eventCount,         \* SpecWalk: the events the timeline of the issue holds
  limit,              \* SpecWalk: the limit fetchLatestActivities is called with
  walkPc,             \* SpecWalk: where fetchLatestActivities is
  currentPage,        \* SpecWalk: the next page of the walk
  combinedItems,      \* SpecWalk: the items collected so far, oldest first
  walked,             \* SpecWalk: the pages the walk has requested, in order
  latest,             \* SpecWalk: what fetchLatestActivities returned
  timeline,           \* SpecTransform: the raw timeline under test
  shaped,             \* SpecTransform: what transformTimeline made of it
  transformed         \* SpecTransform: transformTimeline has been applied

\* The variables of the pure transforms under test.
reduceVars == << input, output, applied >>

\* The variables of transformTimeline under test.
transformVars == << timeline, shaped, transformed >>

\* The variables of the workflow pass filter under test.
workflowVars == << ciThread, ciCache, ciRun, ciDone, ciApplied >>

\* The variables of SpecFilter.
filterVars == << fThread, fSkipThreads, fSkipActivities, fLogin, fAfter, fSkipped, fStage >>

\* The variables of SpecFormat.
formatVars == << fmtActivity, fmtViewer, fmtResult, fmtDone >>

\* The variables of SpecValidate.
validateVars == << vConfig, vErrors, vDone >>

\* The variables of SpecInterval.
intervalVars == << xPollInterval, pollReturned, delayMs >>

\* The variables of SpecEnrich.
enrichVars == << eThread, eResult, eFetched, eAfter, eDone >>

\* The variables of SpecStart.
startVars == << startPc, daemonState, pidFile >>

\* The variables of SpecWalk.
walkVars == << eventCount, limit, walkPc, currentPage, combinedItems, walked, latest >>

pureVars == << reduceVars, transformVars, workflowVars, filterVars, formatVars, validateVars, intervalVars, enrichVars, startVars, walkVars >>

\* The clock, the configuration and the carry-over state of the daemon.
daemonVars ==
  << now, config, userConfig, polls, lastProcessedTime, workflowPassCache,
     cachedViewerLogin, viewerLookups, since, pollIntervalSec, itemsLeft, sent,
     outcome,
     lastCycle, seenBefore >>

\* The locals of one poll cycle.
cycleVars ==
  << requestStartTime, rawThreads, kept, skipped, viewerLogin,
     timelineFetches, results, reduced, markReadCalls >>

vars == << pc, daemonVars, cycleVars, pureVars >>

\* No activity: the activity of a thread-level delivery.
NoActivity == Activity(NONE, NoTime, NONE, NONE, NONE, NONE, NONE, NONE, NONE)

NoLists == [id \in ThreadIds |-> << >>]

\* No timeline fetch: what results holds for a thread that was not enriched.
NoResult == [ok |-> FALSE, items |-> << >>]

NoResults == [id \in ThreadIds |-> NoResult]

\* What the notify loop has done before it starts.
NoProgress(cache) ==
  [sent |-> << >>, max |-> NoTime, cache |-> cache, aborted |-> FALSE,
   fetched |-> {}]

\* No workflow pass filter under test.
InitWorkflowIdle ==
  /\ ciThread = Thread("T2", TRUE, 1)
  /\ ciCache = << >>
  /\ ciRun = [ok |-> FALSE, status |-> NONE, conclusion |-> NONE]
  /\ ciDone = NoProgress(<< >>)
  /\ ciApplied = FALSE

\* SpecFilter is not under way.
InitFilterIdle ==
  /\ fThread = Thread("T1", TRUE, 1)
  /\ fSkipThreads = << >>
  /\ fSkipActivities = << >>
  /\ fLogin = NONE
  /\ fAfter = fThread
  /\ fSkipped = FALSE
  /\ fStage = "start"

\* SpecFormat is not under way.
InitFormatIdle ==
  /\ fmtActivity = NoActivity
  /\ fmtViewer = NONE
  /\ fmtResult = NullNotification
  /\ fmtDone = FALSE

\* SpecValidate is not under way.
InitValidateIdle ==
  /\ vConfig = EmptyConfig
  /\ vErrors = << >>
  /\ vDone = FALSE

\* SpecInterval is not under way.
InitIntervalIdle ==
  /\ xPollInterval = -1
  /\ pollReturned = FALSE
  /\ delayMs = 0

\* SpecEnrich is not under way.
InitEnrichIdle ==
  /\ eThread = Thread("T1", TRUE, 1)
  /\ eResult = NoResult
  /\ eFetched = FALSE
  /\ eAfter = << >>
  /\ eDone = FALSE

\* The concurrent `gh-ping start` invocations; the daemon an invocation
\* spawns has the invocation's number as its pid.
MaxStarts == 3

Starts == 1..MaxStarts

\* No PID file.
NoPid == 0

\* SpecStart is not under way.
InitStartIdle ==
  /\ startPc = [i \in Starts |-> "check"]
  /\ daemonState = [i \in Starts |-> "none"]
  /\ pidFile = NoPid

\* SpecWalk is not under way.
InitWalkIdle ==
  /\ eventCount = 0
  /\ limit = 0
  /\ walkPc = "done"
  /\ currentPage = 0
  /\ combinedItems = << >>
  /\ walked = << >>
  /\ latest = << >>

InitDaemon ==
  /\ pc = "idle"
  /\ polls = 0
  /\ lastProcessedTime = NoTime
  /\ workflowPassCache = << >>
  /\ cachedViewerLogin = "undefined"
  /\ viewerLookups = 0
  /\ since = NoTime
  /\ pollIntervalSec = DEFAULT_POLL_INTERVAL_SEC
  /\ requestStartTime = NoTime
  /\ rawThreads = << >>
  /\ kept = << >>
  /\ skipped = << >>
  /\ viewerLogin = NONE
  /\ timelineFetches = {}
  /\ results = NoResults
  /\ itemsLeft = MaxItems
  /\ reduced = NoLists
  /\ markReadCalls = << >>
  /\ sent = << >>
  /\ outcome = "none"
  /\ lastCycle = [completed |-> FALSE, threads |-> << >>, results |-> NoResults]
  /\ seenBefore = NoTime

Init ==
  /\ now \in Times
  /\ userConfig \in UserConfigs
  /\ config = applyDefaults(userConfig)
  /\ InitDaemon
  /\ input = << >>
  /\ output = << >>
  /\ applied = << >>
  /\ timeline = << >>
  /\ shaped = << >>
  /\ transformed = FALSE
  /\ InitWorkflowIdle
  /\ InitFilterIdle
  /\ InitFormatIdle
  /\ InitValidateIdle
  /\ InitIntervalIdle
  /\ InitEnrichIdle
  /\ InitStartIdle
  /\ InitWalkIdle

\* ------------------------------------------------------------------ poll

\* What the finished cycle leaves for the next one to compare with.
CycleRecord == [completed |-> outcome = "completed", threads |-> rawThreads,
                results |-> results]

\* The latest of a set of timestamps, NoTime for the empty set.
RECURSIVE latestOf(_)
latestOf(times) ==
  IF times = {} THEN NoTime
  ELSE LET t == CHOOSE x \in times : TRUE
           rest == latestOf(times \ {t})
       IN IF t > rest THEN t ELSE rest

\* The latest timestamp seen up to and including the latest cycle: thread
\* updates and timeline items.
SeenSoFar ==
  latestOf({seenBefore}
           \cup {rawThreads[i].updatedAt : i \in DOMAIN rawThreads}
           \cup UNION {{results[id].items[k].at : k \in DOMAIN results[id].items} :
                         id \in ThreadIds})

\* A loop that starts poll on a timer, whether or not the previous call has
\* returned (setInterval in place of the awaits).
cycleMayStartUnawaited(at) == at \in {"idle", "markRead", "enrich", "notify"}

\* runDaemon: poll is called at the top of the loop body only, after the
\* previous call and the delay were awaited.
cycleMayStart(at) == at = "idle"

\* The catch block of runDaemon: logger.error appends to the log file and
\* may throw itself; then the exception leaves the loop and runDaemon.
afterPollError(logged) == IF logged THEN "sleep" ELSE "stopped"

\* poll, step 1 and 2: the fetch succeeded; filterThreads splits the threads.
Fetch ==
  /\ cycleMayStart(pc)
  /\ polls < MaxPolls
  /\ \E response \in FeedResponses :
       LET parts == filterThreads(response, config.skipThreads)
       IN /\ rawThreads' = response
          /\ kept' = parts.kept
          /\ skipped' = parts.skipped
          /\ pc' = IF config.markSkippedAsRead /\ Len(parts.skipped) > 0
                   THEN "markRead" ELSE "enrich"
  /\ polls' = polls + 1
  /\ requestStartTime' = now
  /\ viewerLogin' = NONE
  /\ timelineFetches' = {}
  /\ results' = NoResults
  /\ reduced' = NoLists
  /\ markReadCalls' = << >>
  /\ outcome' = "none"
  /\ lastCycle' = CycleRecord
  /\ seenBefore' = SeenSoFar
  /\ UNCHANGED << now, config, userConfig, lastProcessedTime, workflowPassCache,
                  cachedViewerLogin, viewerLookups, since, pollIntervalSec,
                  itemsLeft, sent,
                  pureVars >>

\* poll, step 1: fetchNotifications throws; runDaemon catches and logs it.
FetchFail ==
  /\ cycleMayStart(pc)
  /\ polls < MaxPolls
  /\ polls' = polls + 1
  /\ requestStartTime' = now
  /\ rawThreads' = << >>
  /\ kept' = << >>
  /\ skipped' = << >>
  /\ viewerLogin' = NONE
  /\ timelineFetches' = {}
  /\ results' = NoResults
  /\ reduced' = NoLists
  /\ markReadCalls' = << >>
  /\ outcome' = "failed"
  /\ lastCycle' = CycleRecord
  /\ seenBefore' = SeenSoFar
  /\ \E logged \in BOOLEAN : pc' = afterPollError(logged)
  /\ UNCHANGED << now, config, userConfig, lastProcessedTime, workflowPassCache,
                  cachedViewerLogin, viewerLookups, since, pollIntervalSec,
                  itemsLeft, sent,
                  pureVars >>

\* markThreadsAsRead without the try/catch around each call: the first
\* failing call ends the loop.
markThreadsAsReadUntilFailure(threads, ok) ==
  LET failures == {i \in DOMAIN threads : ~ok[i]}
      last == IF failures = {} THEN Len(threads)
              ELSE CHOOSE i \in failures : \A j \in failures : i <= j
  IN [i \in 1..last |-> [thread |-> threads[i].id, ok |-> ok[i]]]

\* markThreadsAsRead: the markThreadAsRead calls it makes, one per thread in
\* order; ok[i] tells whether the i-th call succeeds. A failure is logged.
markThreadsAsRead(threads, ok) ==
  [i \in DOMAIN threads |-> [thread |-> threads[i].id, ok |-> ok[i]]]

\* poll, after step 2: the skipped threads are marked as read.
MarkSkipped ==
  /\ pc = "markRead"
  /\ \E ok \in [DOMAIN skipped -> BOOLEAN] :
       markReadCalls' = markThreadsAsRead(skipped, ok)
  /\ pc' = "enrich"
  /\ UNCHANGED << daemonVars, requestStartTime, rawThreads, kept, skipped,
                  viewerLogin, timelineFetches, results, reduced, pureVars >>

\* enrichThread: the activities of a thread after the timeline fetch.
enrichThread(thread, result, clock) ==
  IF ~needsTimeline(thread) THEN thread.activities
  ELSE IF result.ok THEN transformTimeline(result.items, clock)
  ELSE << >>

\* Step 4 of poll: drop the activities shouldSkipActivity rejects.
filterActivities(thread, activities, filters, login) ==
  SelectSeq(activities,
            LAMBDA a : ~shouldSkipActivity(thread, a, filters, login))

\* Steps 4, 5 and 5.5 of poll run in the wrong order: reduce, then filter.
shapeActivitiesReduceFirst(thread, activities, cfg, login) ==
  LET red == reduceActivities(activities)
      filtered == filterActivities(thread, red, cfg.skipActivities, login)
  IN [reduced |-> filtered,
      final |-> IF Truthy(cfg.collapseMergedPrActivities) /\ thread.subject.type = "PullRequest"
                THEN collapseMergeActivities(filtered) ELSE filtered]

\* Steps 4, 5 and 5.5 of poll for one thread: filter, reduce, collapse.
shapeActivities(thread, activities, cfg, login) ==
  LET filtered == filterActivities(thread, activities, cfg.skipActivities, login)
      red == reduceActivities(filtered)
  IN [reduced |-> red,
      final |-> IF Truthy(cfg.collapseMergedPrActivities) /\ thread.subject.type = "PullRequest"
                THEN collapseMergeActivities(red) ELSE red]

\* The kept threads whose timeline enrichThread fetches.
timelineTargets(threads) ==
  {threads[i].id : i \in {j \in DOMAIN threads : needsTimeline(threads[j])}}

\* The activities enrichment produced for a thread of this cycle, before the
\* activity filter.
Shaped(id) ==
  IF \E i \in DOMAIN kept : kept[i].id = id
  THEN enrichThread(kept[CHOOSE i \in DOMAIN kept : kept[i].id = id],
                    results[id], requestStartTime)
  ELSE << >>

\* The raw timeline items a set of fetch results holds.
RECURSIVE itemCount(_, _)
itemCount(fetched, ids) ==
  IF ids = {} THEN 0
  ELSE LET id == CHOOSE x \in ids : TRUE
       IN Len(fetched[id].items) + itemCount(fetched, ids \ {id})

\* The feed returned exactly what it returned to the previous poll.
IsReplay(threads, fetched) ==
  threads = lastCycle.threads /\ fetched = lastCycle.results

\* fetchViewerLogin: what it may return. With nothing cached it asks the
\* feed and gets the login, or null when the request fails or carries no
\* login; otherwise it returns what is cached.
fetchViewerLogin(cached) ==
  IF cached = "undefined" THEN {Viewer, NONE} ELSE {cached}

\* fetchViewerLogin: the GET user requests one call issues.
lookupsIssued(cached) == IF cached = "undefined" THEN 1 ELSE 0

\* A fetchViewerLogin that caches a login it was given and nothing else.
cachedAfterLookupSuccessOnly(cached, login) ==
  IF login = NONE THEN "undefined" ELSE login

\* fetchViewerLogin: cachedViewerLogin after a call that returned login.
cachedAfterLookup(cached, login) == login

\* poll, steps 3 to 5.5: enrich every kept thread, look the viewer up, filter,
\* reduce and collapse the activities.
Enrich ==
  /\ pc = "enrich"
  /\ \E fetched \in [timelineTargets(kept) -> TimelineOutcomes] :
     \E login \in fetchViewerLogin(cachedViewerLogin) :
       LET all == [id \in ThreadIds |->
                     IF id \in DOMAIN fetched THEN fetched[id] ELSE NoResult]
           cost == IF IsReplay(rawThreads, all) THEN 0 ELSE itemCount(all, ThreadIds)
           shapeOf(t) == shapeActivities(t, enrichThread(t, all[t.id], now),
                                         config, login)
           byId(id) == CHOOSE i \in DOMAIN kept : kept[i].id = id
       IN /\ cost <= itemsLeft
          /\ itemsLeft' = itemsLeft - cost
          /\ timelineFetches' = timelineTargets(kept)
          /\ results' = all
          /\ reduced' = [id \in ThreadIds |->
                          IF \E i \in DOMAIN kept : kept[i].id = id
                          THEN shapeOf(kept[byId(id)]).reduced ELSE << >>]
          /\ kept' = [i \in DOMAIN kept |->
                        [kept[i] EXCEPT !.activities = shapeOf(kept[i]).final]]
          /\ cachedViewerLogin' = cachedAfterLookup(cachedViewerLogin, login)
          /\ viewerLookups' = viewerLookups + lookupsIssued(cachedViewerLogin)
          /\ viewerLogin' = login
  /\ pc' = "notify"
  /\ UNCHANGED << now, config, userConfig, polls, lastProcessedTime, workflowPassCache,
                  since, pollIntervalSec, sent, outcome, lastCycle, seenBefore,
                  requestStartTime, rawThreads, skipped, markReadCalls, pureVars >>

\* shouldSkipWorkflowNotification that skips after any completed run,
\* whatever its conclusion.
shouldSkipWorkflowNotificationAnyConclusion(thread, cache, run) ==
  LET branch == extractBranchFromSubject(thread.subject.title)
      cacheKey == << thread.repository, branch >>
      shouldSkip == run.status = "completed"
  IN IF thread.subject.type \notin {"WorkflowRun", "CheckSuite"}
     THEN [skip |-> FALSE, cache |-> cache, fetched |-> FALSE]
     ELSE IF branch = NONE
     THEN [skip |-> FALSE, cache |-> cache, fetched |-> FALSE]
     ELSE IF cacheKey \in DOMAIN cache
     THEN [skip |-> cache[cacheKey], cache |-> cache, fetched |-> FALSE]
     ELSE IF run.ok
     THEN [skip |-> shouldSkip, cache |-> cache @@ (cacheKey :> shouldSkip),
           fetched |-> TRUE]
     ELSE [skip |-> FALSE, cache |-> cache, fetched |-> TRUE]

\* shouldSkipWorkflowNotification: the decision and the cache it leaves. run
\* is what fetchLatestWorkflowRun does if it is called.
shouldSkipWorkflowNotification(thread, cache, run) ==
  LET branch == extractBranchFromSubject(thread.subject.title)
      cacheKey == << thread.repository, branch >>
      shouldSkip == run.status = "completed" /\ run.conclusion = "success"
  IN IF thread.subject.type \notin {"WorkflowRun", "CheckSuite"}
     THEN [skip |-> FALSE, cache |-> cache, fetched |-> FALSE]
     ELSE IF branch = NONE
     THEN [skip |-> FALSE, cache |-> cache, fetched |-> FALSE]
     ELSE IF cacheKey \in DOMAIN cache
     THEN [skip |-> cache[cacheKey], cache |-> cache, fetched |-> FALSE]
     ELSE IF run.ok
     THEN [skip |-> shouldSkip, cache |-> cache @@ (cacheKey :> shouldSkip),
           fetched |-> TRUE]
     ELSE [skip |-> FALSE, cache |-> cache, fetched |-> TRUE]

\* One sendNotification call, as the sink sees it.
Delivery(poll, thread, activity) ==
  [poll |-> poll, thread |-> thread.id, updatedAt |-> thread.updatedAt,
   activity |-> activity]

\* The later of the running maximum and a timestamp.
laterOf(maxActivityTime, time) ==
  IF maxActivityTime = NoTime \/ time > maxActivityTime THEN time ELSE maxActivityTime

\* A notify loop without the delivery gate.
isOldNever(time, watermark) == FALSE

\* The delivery gate with < in place of <=.
isOldStrict(time, watermark) == watermark # NoTime /\ time < watermark

\* The delivery gate: at or before lastProcessedTime is old.
isOld(time, watermark) == watermark # NoTime /\ time <= watermark

\* The inner loop of step 6/7 from activity j on. budget is the number of
\* sends after which the next logger.info/sendNotification throws.
RECURSIVE notifyActivities(_, _, _, _, _, _)
notifyActivities(poll, thread, j, acc, watermark, budget) ==
  IF j > Len(thread.activities) \/ acc.aborted THEN acc
  ELSE LET activity == thread.activities[j]
           tracked == [acc EXCEPT !.max = laterOf(@, activity.createdAt)]
       IN IF isOld(activity.createdAt, watermark)
          THEN notifyActivities(poll, thread, j + 1, acc, watermark, budget)
          ELSE IF formatActivityNotificationIsNull(activity)
          THEN notifyActivities(poll, thread, j + 1, tracked, watermark, budget)
          ELSE IF Len(tracked.sent) = budget
          THEN [tracked EXCEPT !.aborted = TRUE]
          ELSE notifyActivities(poll, thread, j + 1,
                 [tracked EXCEPT !.sent = Append(@, Delivery(poll, thread, activity))],
                 watermark, budget)

\* A thread-level path that sends nothing for a thread without activities.
notifyThreadSilent(poll, thread, acc, watermark, budget) == acc

\* The thread-level fallback of step 6/7.
notifyThread(poll, thread, acc, watermark, budget) ==
  IF isOld(thread.updatedAt, watermark) THEN acc
  ELSE LET tracked == [acc EXCEPT !.max = laterOf(@, thread.updatedAt)]
       IN IF Len(tracked.sent) = budget
          THEN [tracked EXCEPT !.aborted = TRUE]
          ELSE [tracked EXCEPT !.sent = Append(@, Delivery(poll, thread, NoActivity))]

\* Step 6/7 of poll from kept thread i on.
RECURSIVE notifyLoop(_, _, _, _, _, _, _)
notifyLoop(poll, threads, i, acc, watermark, runs, budget) ==
  IF i > Len(threads) \/ acc.aborted THEN acc
  ELSE LET thread == threads[i]
           wf == shouldSkipWorkflowNotification(thread, acc.cache, runs[thread.id])
           seen == [acc EXCEPT !.cache = wf.cache,
                               !.fetched = IF wf.fetched THEN @ \cup {thread.id} ELSE @]
       IN IF wf.skip
          THEN notifyLoop(poll, threads, i + 1, seen, watermark, runs, budget)
          ELSE IF Len(thread.activities) > 0
          THEN notifyLoop(poll, threads, i + 1,
                 notifyActivities(poll, thread, 1, seen, watermark, budget),
                 watermark, runs, budget)
          ELSE notifyLoop(poll, threads, i + 1,
                 notifyThread(poll, thread, seen, watermark, budget),
                 watermark, runs, budget)

\* The whole of step 6/7. A budget of -1 never throws.
notifyAll(runs, budget) ==
  notifyLoop(polls, kept, 1,
             NoProgress(workflowPassCache),
             lastProcessedTime, runs, budget)

\* The watermark update that always takes the poll's start time when nothing
\* qualified.
nextProcessedTimeReset(maxActivityTime, watermark, start) ==
  IF maxActivityTime # NoTime THEN maxActivityTime ELSE start

\* The update of lastProcessedTime at the end of poll.
nextProcessedTime(maxActivityTime, watermark, start) ==
  IF maxActivityTime # NoTime THEN maxActivityTime
  ELSE IF watermark = NoTime THEN start
  ELSE watermark

\* Number(text) of a header that is not a number.
NaN == -2

\* The X-Poll-Interval header of a notifications response: absent (-1), text
\* that is not a number (NaN), or the number of seconds it carries (0 also
\* for an empty value). Nothing reads it before poll returns.
XPollInterval == {NaN, -1, 0, 120}

\* fetchNotifications: pollIntervalSec is the header, 60 when it is absent.
advisedInterval(header) == IF header = -1 THEN 60 ELSE header

\* A loop that takes the advised interval as it comes, zero included.
nextPollIntervalNoDefault(advised) == advised

\* runDaemon: result.pollIntervalSec || DEFAULT_POLL_INTERVAL_SEC.
nextPollInterval(advised) ==
  IF advised = 0 \/ advised = NaN THEN DEFAULT_POLL_INTERVAL_SEC ELSE advised

\* The largest updatedAt among the fetched threads.
RECURSIVE maxUpdatedAt(_)
maxUpdatedAt(threads) ==
  IF Len(threads) = 1 THEN threads[1].updatedAt
  ELSE LET rest == maxUpdatedAt(Tail(threads))
       IN IF threads[1].updatedAt > rest THEN threads[1].updatedAt ELSE rest

\* A cursor that follows the latest response, earlier than the cursor or not.
nextSinceOfResponse(cursor, threads, start) ==
  IF Len(threads) > 0 THEN maxUpdatedAt(threads)
  ELSE IF cursor = NoTime THEN start
  ELSE cursor

\* The cursor poll returns.
nextSince(cursor, threads, start) ==
  IF Len(threads) > 0
  THEN IF cursor = NoTime \/ maxUpdatedAt(threads) > cursor
       THEN maxUpdatedAt(threads) ELSE cursor
  ELSE IF cursor = NoTime THEN start
  ELSE cursor

\* The kept threads for which the notify stage may have to fetch the latest
\* workflow run: CI threads with a branch that is not in the cache yet.
runTargets(threads, cache) ==
  {threads[i].id : i \in
     {j \in DOMAIN threads :
        /\ threads[j].subject.type \in {"WorkflowRun", "CheckSuite"}
        /\ extractBranchFromSubject(threads[j].subject.title) # NONE
        /\ << threads[j].repository,
              extractBranchFromSubject(threads[j].subject.title) >>
             \notin DOMAIN cache}}

\* The workflow-run fetch outcomes the notify stage may meet, one per thread
\* that may need one.
RunChoices ==
  {[id \in ThreadIds |-> IF id \in DOMAIN choice THEN choice[id]
                         ELSE [ok |-> FALSE, status |-> NONE, conclusion |-> NONE]] :
     choice \in [runTargets(kept, workflowPassCache) -> RunOutcomes]}

\* poll, steps 6 and 7 to the end: every send succeeds, the watermark and the
\* cursor are updated, the loop goes to sleep.
Notify ==
  /\ pc = "notify"
  /\ \E runs \in RunChoices :
       LET done == notifyAll(runs, -1)
       IN /\ sent' = sent \o done.sent
          /\ workflowPassCache' = done.cache
          /\ lastProcessedTime' =
               nextProcessedTime(done.max, lastProcessedTime, requestStartTime)
  /\ since' = nextSince(since, rawThreads, requestStartTime)
  /\ \E header \in XPollInterval :
       pollIntervalSec' = nextPollInterval(advisedInterval(header))
  /\ outcome' = "completed"
  /\ pc' = "sleep"
  /\ UNCHANGED << now, config, userConfig, polls, cachedViewerLogin,
                  viewerLookups, itemsLeft, lastCycle,
                  seenBefore, cycleVars, pureVars >>

\* A notify loop that moves the watermark as it goes, so that an exception
\* leaves it at the latest timestamp handled so far.
abortedProcessedTimeEager(maxActivityTime, watermark) ==
  IF maxActivityTime # NoTime THEN maxActivityTime ELSE watermark

\* lastProcessedTime when the notify loop throws: maxActivityTime is a local
\* of poll and the update after the loop is never reached.
abortedProcessedTime(maxActivityTime, watermark) == watermark

\* poll, steps 6 and 7: after some sends the next logger.info or
\* sendNotification throws; poll is left, runDaemon catches and logs.
NotifyAbort ==
  /\ pc = "notify"
  /\ \E runs \in RunChoices :
     \E budget \in 0..(Len(notifyAll(runs, -1).sent) - 1) :
       LET done == notifyAll(runs, budget)
       IN /\ sent' = sent \o done.sent
          /\ workflowPassCache' = done.cache
          /\ lastProcessedTime' = abortedProcessedTime(done.max, lastProcessedTime)
  /\ outcome' = "failed"
  /\ \E logged \in BOOLEAN : pc' = afterPollError(logged)
  /\ UNCHANGED << now, config, userConfig, polls, cachedViewerLogin,
                  viewerLookups, since, pollIntervalSec, itemsLeft, lastCycle, seenBefore,
                  cycleVars, pureVars >>

\* runDaemon: the inter-poll delay has elapsed.
Wait ==
  /\ pc = "sleep"
  /\ polls < MaxPolls
  /\ \E later \in Times : later > now /\ now' = later
  /\ pc' = "idle"
  /\ UNCHANGED << config, userConfig, polls, lastProcessedTime, workflowPassCache,
                  cachedViewerLogin, viewerLookups, since, pollIntervalSec,
                  itemsLeft, sent,
                  outcome, lastCycle, seenBefore, cycleVars, pureVars >>

Next ==
  \/ Fetch
  \/ FetchFail
  \/ MarkSkipped
  \/ Enrich
  \/ Notify
  \/ NotifyAbort
  \/ Wait

Spec == Init /\ [][Next]_vars

\* ------------------------------------------------------- the reducer alone

\* The activities the reducer is applied to: comments of two people, of a
\* user whose login is "unknown" and of nobody (no actor), a comment with a
\* body, reviews with and without a state, commits named by committer, by
\* author or by nobody, and a merge.
ReduceItems ==
  {Activity("commented", t, a, NONE, NONE, NONE, NONE, NONE, NONE) :
     t \in Times, a \in {"alice", "bob"}}
  \cup {Activity("commented", 1, a, NONE, NONE, NONE, NONE, NONE, NONE) :
          a \in {"unknown", NONE}}
  \cup {Activity("commented", 1, "alice", NONE, NONE, NONE, NONE, NONE, "LGTM")}
  \cup {Activity("reviewed", 1, "alice", st, NONE, NONE, NONE, NONE, NONE) :
          st \in {"approved", "changes_requested", NONE}}
  \cup {Activity("committed", 1, NONE, NONE, n[1], n[2], NONE, NONE, NONE) :
          n \in {<< "alice", NONE >>, << NONE, "alice" >>, << NONE, NONE >>}}
  \cup {Activity("merged", MaxTime, "bob", NONE, NONE, NONE, NONE, NONE, NONE)}

ActivityLists == UNION {[1..n -> ReduceItems] : n \in 0..MaxLen}

InitReduce ==
  /\ now = 1
  /\ userConfig \in {given \in UserConfigs : given.skipThreads = << >>}
  /\ config = applyDefaults(userConfig)
  /\ InitDaemon
  /\ input \in ActivityLists
  /\ output = input
  /\ applied = << >>
  /\ timeline = << >>
  /\ shaped = << >>
  /\ transformed = FALSE
  /\ InitWorkflowIdle
  /\ InitFilterIdle
  /\ InitFormatIdle
  /\ InitValidateIdle
  /\ InitIntervalIdle
  /\ InitEnrichIdle
  /\ InitStartIdle
  /\ InitWalkIdle

\* output = reduceActivities(output)
ApplyReduce ==
  /\ Len(applied) < MaxApply
  /\ output' = reduceActivities(output)
  /\ applied' = Append(applied, "reduce")
  /\ UNCHANGED << pc, daemonVars, cycleVars, input, transformVars, workflowVars, filterVars, formatVars, validateVars, intervalVars, enrichVars, startVars, walkVars >>

\* output = collapseMergeActivities(output)
ApplyCollapse ==
  /\ Len(applied) < MaxApply
  /\ output' = collapseMergeActivities(output)
  /\ applied' = Append(applied, "collapse")
  /\ UNCHANGED << pc, daemonVars, cycleVars, input, transformVars, workflowVars, filterVars, formatVars, validateVars, intervalVars, enrichVars, startVars, walkVars >>

NextReduce == ApplyReduce \/ ApplyCollapse

SpecReduce == InitReduce /\ [][NextReduce]_vars

\* ----------------------------------------------- transformTimeline alone

\* The raw timeline items transformTimeline is applied to: a merge, a close,
\* a comment, a review without submitted_at and an event kind that is not
\* tracked.
RawItems ==
  {RawItem("merged", 1, "bob"), RawItem("closed", 1, "bob"),
   RawItem("commented", MaxTime, "alice"), RawItem("reviewed", NoTime, "alice"),
   RawItem("labeled", 1, "alice")}

RawTimelines == UNION {[1..n -> RawItems] : n \in 0..MaxLen}

InitTransform ==
  /\ now \in Times
  /\ userConfig \in {given \in UserConfigs : given.skipThreads = << >>}
  /\ config = applyDefaults(userConfig)
  /\ InitDaemon
  /\ input = << >>
  /\ output = << >>
  /\ applied = << >>
  /\ timeline \in RawTimelines
  /\ shaped = << >>
  /\ transformed = FALSE
  /\ InitWorkflowIdle
  /\ InitFilterIdle
  /\ InitFormatIdle
  /\ InitValidateIdle
  /\ InitIntervalIdle
  /\ InitEnrichIdle
  /\ InitStartIdle
  /\ InitWalkIdle

\* shaped = transformTimeline(timeline), with new Date() = now
ApplyTransform ==
  /\ ~transformed
  /\ shaped' = transformTimeline(timeline, now)
  /\ transformed' = TRUE
  /\ UNCHANGED << pc, daemonVars, cycleVars, reduceVars, timeline, workflowVars, filterVars, formatVars, validateVars, intervalVars, enrichVars, startVars, walkVars >>

NextTransform == ApplyTransform

SpecTransform == InitTransform /\ [][NextTransform]_vars

\* ------------------------------------------ the workflow pass filter alone

\* The kept threads the notify loop is run on: a pull request, a check suite
\* and a workflow run whose titles name a branch, a check suite whose title
\* names none, and a pull request whose title reads like a workflow title.
WorkflowThreads ==
  UNION {{Thread("T1", TRUE, t),
          Thread("T2", TRUE, t),
          [Thread("T2", TRUE, t) EXCEPT !.subject.type = "WorkflowRun"],
          [Thread("T2", TRUE, t) EXCEPT !.subject.title = "CI failed"],
          [Thread("T1", TRUE, t) EXCEPT
             !.subject.title = "workflow run failed for main branch"]} :
           t \in Times}

\* The cache before the loop: nothing known, or the branch known to pass or
\* known not to.
WorkflowCaches ==
  {<< >>} \cup {key :> passed : key \in CacheKeys, passed \in BOOLEAN}

InitWorkflow ==
  /\ now = 1
  /\ userConfig \in {given \in UserConfigs : given.skipThreads = << >>}
  /\ config = applyDefaults(userConfig)
  /\ InitDaemon
  /\ input = << >>
  /\ output = << >>
  /\ applied = << >>
  /\ timeline = << >>
  /\ shaped = << >>
  /\ transformed = FALSE
  /\ ciThread \in WorkflowThreads
  /\ ciCache \in WorkflowCaches
  /\ ciRun \in RunOutcomes
  /\ ciDone = NoProgress(ciCache)
  /\ ciApplied = FALSE
  /\ InitFilterIdle
  /\ InitFormatIdle
  /\ InitValidateIdle
  /\ InitIntervalIdle
  /\ InitEnrichIdle
  /\ InitStartIdle
  /\ InitWalkIdle

\* Step 6/7 of poll for the one kept thread, before any watermark is set.
ApplyWorkflowFilter ==
  /\ ~ciApplied
  /\ ciDone' = notifyLoop(1, << ciThread >>, 1, NoProgress(ciCache), NoTime,
                          [id \in ThreadIds |-> ciRun], -1)
  /\ ciApplied' = TRUE
  /\ UNCHANGED << pc, daemonVars, cycleVars, reduceVars, transformVars,
                  ciThread, ciCache, ciRun, filterVars, formatVars, validateVars, intervalVars, enrichVars, startVars, walkVars >>

NextWorkflow == ApplyWorkflowFilter

SpecWorkflow == InitWorkflow /\ [][NextWorkflow]_vars

\* ------------------------------------------------ the filter stages alone

\* The activities enrichment produced for the thread under test.
FilterItems ==
  {Activity("commented", 1, "alice", NONE, NONE, NONE, NONE, NONE, NONE),
   Activity("commented", MaxTime, "dependabot[bot]", NONE, NONE, NONE, NONE,
            NONE, NONE),
   Activity("commented", MaxTime, Viewer, NONE, NONE, NONE, NONE, NONE, NONE)}

\* The pull request thread with one to MaxTimeline activities.
FilterThreads ==
  {[Thread("T1", TRUE, MaxTime) EXCEPT !.activities = list] :
     list \in UNION {[1..n -> FilterItems] : n \in 1..MaxTimeline}}

\* The thread predicates of the config under test.
ThreadPredicates == {"isCheckSuite", "isPullRequest", "rewindsThread", "retitles", "throws"}

\* The activity predicates of the config under test.
ActivityPredicates == {"isBot", "renamesActor", "relabels", "rewindsThread", "throws"}

InitFilter ==
  /\ now = 1
  /\ userConfig \in {given \in UserConfigs : given.skipThreads = << >>}
  /\ config = applyDefaults(userConfig)
  /\ InitDaemon
  /\ input = << >>
  /\ output = << >>
  /\ applied = << >>
  /\ timeline = << >>
  /\ shaped = << >>
  /\ transformed = FALSE
  /\ InitWorkflowIdle
  /\ fThread \in FilterThreads
  /\ fSkipThreads \in UNION {[1..n -> ThreadPredicates] : n \in 0..1}
  /\ fSkipActivities \in UNION {[1..n -> ActivityPredicates] : n \in 0..2}
  /\ fLogin \in {Viewer, NONE}
  /\ fAfter = fThread
  /\ fSkipped = FALSE
  /\ fStage = "start"
  /\ InitFormatIdle
  /\ InitValidateIdle
  /\ InitIntervalIdle
  /\ InitEnrichIdle
  /\ InitStartIdle
  /\ InitWalkIdle

\* Step 2 of poll for the thread: shouldSkipThread.
ApplyThreadFilter ==
  /\ fStage = "start"
  /\ LET ran == runThreadFilters(fAfter, toThreadFilterInput(fAfter), fSkipThreads)
     IN /\ fAfter' = ran.thread
        /\ fSkipped' = ran.skip
  /\ fStage' = "threads"
  /\ UNCHANGED << pc, daemonVars, cycleVars, reduceVars, transformVars,
                  workflowVars, formatVars, validateVars, intervalVars, enrichVars, startVars, walkVars, fThread, fSkipThreads,
                  fSkipActivities, fLogin >>

\* Step 4 of poll for the thread, when it was kept.
ApplyActivityFilter ==
  /\ fStage = "threads"
  /\ ~fSkipped
  /\ fAfter' = filterActivitiesOf(fAfter, 1, << >>, fSkipActivities, fLogin)
  /\ fStage' = "activities"
  /\ UNCHANGED << pc, daemonVars, cycleVars, reduceVars, transformVars,
                  workflowVars, formatVars, validateVars, intervalVars, enrichVars, startVars, walkVars, fThread, fSkipThreads,
                  fSkipActivities, fLogin, fSkipped >>

NextFilter == ApplyThreadFilter \/ ApplyActivityFilter

SpecFilter == InitFilter /\ [][NextFilter]_vars

\* ------------------------------------------------------ the formatter alone

\* Raw timeline items of every kind of the dispatch table: reviews of every
\* state, commits signed by a committer, an author, both or neither,
\* assignments to oneself, the viewer, someone else or nobody, review
\* requests to a person or a team.
FormatRawItems ==
  {RawItem(event, 1, "alice") :
     event \in {"commented", "line-commented", "closed", "reopened", "merged"}}
  \cup {[RawItem("reviewed", 1, "alice") EXCEPT !.state = st] :
          st \in {"approved", "changes_requested", "commented", "dismissed", NONE}}
  \cup {[RawItem("committed", 1, NONE) EXCEPT !.committer = n[1], !.author = n[2]] :
          n \in {<< "alice", "alice" >>, << "alice", "bob" >>, << "alice", NONE >>,
                 << NONE, "bob" >>, << NONE, NONE >>}}
  \cup {[RawItem(event, 1, "alice") EXCEPT !.assignee = who] :
          event \in {"assigned", "unassigned"},
          who \in {NONE, "alice", "bob", Viewer}}
  \cup {[RawItem(event, 1, "alice") EXCEPT !.requestedTeam = team] :
          event \in {"review_requested", "review_request_removed"},
          team \in {NONE, "core"}}

\* The activities handed to the formatter: what transformTimelineItem makes
\* of the raw items, with the count reduceActivities may have set and, on a
\* merge, the preMergeCount collapseMergeActivities may have set; and an
\* activity of a kind the dispatch table does not have.
FormatItems ==
  {[transformTimelineItem(item, 1) EXCEPT !.count = c] :
     item \in FormatRawItems, c \in 0..MaxLen}
  \cup {[transformTimelineItem(RawItem("merged", 1, "alice"), 1)
           EXCEPT !.count = 1, !.preMergeCount = p] : p \in 1..(MaxLen - 1)}
  \cup {[Activity("labeled", 1, "alice", NONE, NONE, NONE, NONE, NONE, NONE)
           EXCEPT !.count = c] : c \in 0..MaxLen}

InitFormat ==
  /\ now = 1
  /\ userConfig \in {given \in UserConfigs : given.skipThreads = << >>}
  /\ config = applyDefaults(userConfig)
  /\ InitDaemon
  /\ input = << >>
  /\ output = << >>
  /\ applied = << >>
  /\ timeline = << >>
  /\ shaped = << >>
  /\ transformed = FALSE
  /\ InitWorkflowIdle
  /\ InitFilterIdle
  /\ fmtActivity \in FormatItems
  /\ fmtViewer \in {Viewer, NONE}
  /\ fmtResult = NullNotification
  /\ fmtDone = FALSE
  /\ InitValidateIdle
  /\ InitIntervalIdle
  /\ InitEnrichIdle
  /\ InitStartIdle
  /\ InitWalkIdle

\* formatted = formatActivityNotification(thread, activity, config, viewerLogin)
ApplyFormat ==
  /\ ~fmtDone
  /\ fmtResult' = formatActivityNotification(Thread("T1", TRUE, 1), fmtActivity,
                                             UserAliases, fmtViewer)
  /\ fmtDone' = TRUE
  /\ UNCHANGED << pc, daemonVars, cycleVars, reduceVars, transformVars,
                  workflowVars, filterVars, validateVars, intervalVars, enrichVars, startVars, walkVars,
                  fmtActivity, fmtViewer >>

NextFormat == ApplyFormat

SpecFormat == InitFormat /\ [][NextFormat]_vars

\* --------------------------------------------------- validateConfig alone

\* The values a predicate list is given in the config files under test:
\* absent, a string, or an array of up to MaxTimeline functions, strings and
\* nulls.
PredicateListValues ==
  {Value("undefined"), Value("string")}
  \cup {ArrayOf(items) :
          items \in UNION {[1..n -> {"function", "string", "null"}] :
                             n \in 0..MaxTimeline}}

\* The values a boolean option is given: absent, a boolean, a string.
OptionValues == {Value("undefined"), Value("boolean"), Value("string")}

\* The values an alias map is given: absent, an object, a number.
AliasValues == {Value("undefined"), Value("object"), Value("number")}

\* The default exports of the config files under test: null, a string, or an
\* object with any of the properties of GhPingUserConfig.
ConfigValues ==
  {[type |-> t, fields |-> EmptyConfig.fields] : t \in {"null", "string"}}
  \cup {[type |-> "object",
         fields |-> [skipThreads |-> st, skipActivities |-> sa,
                     markSkippedAsRead |-> ms, sound |-> so,
                     markAsReadOnClick |-> mc, repoAliases |-> ra,
                     userAliases |-> Value("undefined"),
                     collapseMergedPrActivities |-> cm]] :
          st \in PredicateListValues,
          sa \in {Value("undefined"), Value("object"), ArrayOf(<< "function" >>),
                  ArrayOf(<< "null" >>)},
          ms \in OptionValues, so \in OptionValues,
          mc \in {Value("undefined"), Value("number")},
          ra \in AliasValues, cm \in OptionValues}

InitValidate ==
  /\ now = 1
  /\ userConfig \in {given \in UserConfigs : given.skipThreads = << >>}
  /\ config = applyDefaults(userConfig)
  /\ InitDaemon
  /\ input = << >>
  /\ output = << >>
  /\ applied = << >>
  /\ timeline = << >>
  /\ shaped = << >>
  /\ transformed = FALSE
  /\ InitWorkflowIdle
  /\ InitFilterIdle
  /\ InitFormatIdle
  /\ vConfig \in ConfigValues
  /\ vErrors = << >>
  /\ vDone = FALSE
  /\ InitIntervalIdle
  /\ InitEnrichIdle
  /\ InitStartIdle
  /\ InitWalkIdle

\* errors = validateConfig(userConfig)
ApplyValidate ==
  /\ ~vDone
  /\ vErrors' = validateConfig(vConfig)
  /\ vDone' = TRUE
  /\ UNCHANGED << pc, daemonVars, cycleVars, reduceVars, transformVars,
                  workflowVars, filterVars, formatVars, vConfig, intervalVars, enrichVars, startVars, walkVars >>

NextValidate == ApplyValidate

SpecValidate == InitValidate /\ [][NextValidate]_vars

\* ------------------------------------------------ the delay between polls

\* The polls the loop makes when only its delay is looked at.
MaxLoopPolls == 6

\* The state of the loop that the delay does not depend on.
loopRest ==
  << now, config, userConfig, lastProcessedTime, workflowPassCache,
     cachedViewerLogin, viewerLookups, since, itemsLeft, sent, lastCycle,
     seenBefore,
     cycleVars, reduceVars, transformVars, workflowVars, filterVars,
     formatVars, validateVars, enrichVars, startVars, walkVars >>

InitInterval ==
  /\ now = 1
  /\ userConfig \in {given \in UserConfigs : given.skipThreads = << >>}
  /\ config = applyDefaults(userConfig)
  /\ InitDaemon
  /\ input = << >>
  /\ output = << >>
  /\ applied = << >>
  /\ timeline = << >>
  /\ shaped = << >>
  /\ transformed = FALSE
  /\ InitWorkflowIdle
  /\ InitFilterIdle
  /\ InitFormatIdle
  /\ InitValidateIdle
  /\ InitIntervalIdle
  /\ InitEnrichIdle
  /\ InitStartIdle
  /\ InitWalkIdle

\* runDaemon: poll returned; the response carried the header, and the loop
\* takes result.pollIntervalSec or the default.
PollReturns ==
  /\ cycleMayStart(pc)
  /\ polls < MaxLoopPolls
  /\ polls' = polls + 1
  /\ \E header \in XPollInterval :
       /\ xPollInterval' = header
       /\ pollIntervalSec' = nextPollInterval(advisedInterval(header))
  /\ pollReturned' = TRUE
  /\ outcome' = "completed"
  /\ pc' = "sleep"
  /\ UNCHANGED << loopRest, delayMs >>

\* runDaemon: poll threw; the catch block logs and assigns nothing.
PollThrows ==
  /\ cycleMayStart(pc)
  /\ polls < MaxLoopPolls
  /\ polls' = polls + 1
  /\ outcome' = "failed"
  /\ \E logged \in BOOLEAN : pc' = afterPollError(logged)
  /\ UNCHANGED << loopRest, pollIntervalSec, intervalVars >>

\* runDaemon: setTimeout(resolve, pollIntervalSec * 1000) has resolved.
Delay ==
  /\ pc = "sleep"
  /\ delayMs' = pollIntervalSec * 1000
  /\ pc' = "idle"
  /\ UNCHANGED << loopRest, polls, pollIntervalSec, outcome, xPollInterval,
                  pollReturned >>

NextInterval ==
  \/ PollReturns
  \/ PollThrows
  \/ Delay

SpecInterval == InitInterval /\ [][NextInterval]_vars

\* -------------------------------------------------------- enrichThread alone

\* The subject kinds of the feed.
SubjectTypes ==
  {"Issue", "PullRequest", "Discussion", "Release", "CheckSuite", "Commit"}

\* subject.url: null, .../issues/7, .../pulls/7, .../issues/0,
\* .../issues/new, .../commits/7 and .../releases/7.
SubjectUrls ==
  {[segment |-> NONE, number |-> 0],
   [segment |-> "issues", number |-> 7],
   [segment |-> "pulls", number |-> 7],
   [segment |-> "issues", number |-> 0],
   [segment |-> "issues", number |-> -1],
   [segment |-> "commits", number |-> 7],
   [segment |-> "releases", number |-> 7]}

\* The kept threads enrichThread is called with; activities start empty.
EnrichThreads ==
  {[Thread("T1", TRUE, 1) EXCEPT !.subject.type = type, !.subject.url = url] :
     type \in SubjectTypes, url \in SubjectUrls}

InitEnrich ==
  /\ now = 1
  /\ userConfig \in {given \in UserConfigs : given.skipThreads = << >>}
  /\ config = applyDefaults(userConfig)
  /\ InitDaemon
  /\ input = << >>
  /\ output = << >>
  /\ applied = << >>
  /\ timeline = << >>
  /\ shaped = << >>
  /\ transformed = FALSE
  /\ InitWorkflowIdle
  /\ InitFilterIdle
  /\ InitFormatIdle
  /\ InitValidateIdle
  /\ InitIntervalIdle
  /\ eThread \in EnrichThreads
  /\ eResult \in TimelineOutcomes
  /\ eFetched = FALSE
  /\ eAfter = << >>
  /\ eDone = FALSE
  /\ InitStartIdle
  /\ InitWalkIdle

\* await enrichThread(thread)
ApplyEnrich ==
  /\ ~eDone
  /\ eFetched' = needsTimeline(eThread)
  /\ eAfter' = enrichThread(eThread, eResult, now)
  /\ eDone' = TRUE
  /\ UNCHANGED << pc, daemonVars, cycleVars, reduceVars, transformVars,
                  workflowVars, filterVars, formatVars, validateVars,
                  intervalVars, startVars, walkVars, eThread, eResult >>

NextEnrich == ApplyEnrich

SpecEnrich == InitEnrich /\ [][NextEnrich]_vars

\* ------------------------------------------------------ gh-ping start

\* What the start command and the PID file do not touch.
startRest ==
  << pc, daemonVars, cycleVars, reduceVars, transformVars, workflowVars,
     filterVars, formatVars, validateVars, intervalVars, enrichVars,
     walkVars >>

\* process.kill(pid, 0) succeeds: the process with that pid exists.
isProcessRunning(pid) == daemonState[pid] \in {"booting", "running"}

\* getDaemonStatus: whether a daemon runs and the PID file it leaves (a
\* stale file is removed).
getDaemonStatus(file) ==
  IF file = NoPid THEN [running |-> FALSE, file |-> NoPid]
  ELSE IF isProcessRunning(file) THEN [running |-> TRUE, file |-> file]
  ELSE [running |-> FALSE, file |-> NoPid]

InitStart ==
  /\ now = 1
  /\ userConfig \in {given \in UserConfigs : given.skipThreads = << >>}
  /\ config = applyDefaults(userConfig)
  /\ InitDaemon
  /\ input = << >>
  /\ output = << >>
  /\ applied = << >>
  /\ timeline = << >>
  /\ shaped = << >>
  /\ transformed = FALSE
  /\ InitWorkflowIdle
  /\ InitFilterIdle
  /\ InitFormatIdle
  /\ InitValidateIdle
  /\ InitIntervalIdle
  /\ InitEnrichIdle
  /\ InitStartIdle
  /\ InitWalkIdle

\* startCommand, not in daemon mode: exit(1) if getDaemonStatus reports a
\* running daemon.
CheckRunning(i) ==
  /\ startPc[i] = "check"
  /\ LET status == getDaemonStatus(pidFile)
     IN /\ pidFile' = status.file
        /\ startPc' = [startPc EXCEPT ![i] = IF status.running THEN "refused"
                                              ELSE "prepare"]
  /\ UNCHANGED << startRest, daemonState >>

\* startCommand: await checkGhAuth() and await loadConfig(); either may end
\* the command.
Prepare(i) ==
  /\ startPc[i] = "prepare"
  /\ \E ok \in BOOLEAN :
       startPc' = [startPc EXCEPT ![i] = IF ok THEN "spawn" ELSE "failed"]
  /\ UNCHANGED << startRest, daemonState, pidFile >>

\* startCommand: spawnDaemon starts the detached child with GH_PING_DAEMON=1.
SpawnDaemon(i) ==
  /\ startPc[i] = "spawn"
  /\ daemonState' = [daemonState EXCEPT ![i] = "booting"]
  /\ startPc' = [startPc EXCEPT ![i] = "started"]
  /\ UNCHANGED << startRest, pidFile >>

\* The child: startCommand in daemon mode skips the status check; after auth
\* and config it calls runDaemon, which writes the PID file and polls.
RunDaemon(i) ==
  /\ daemonState[i] = "booting"
  /\ \E ok \in BOOLEAN :
       IF ok
       THEN /\ pidFile' = i
            /\ daemonState' = [daemonState EXCEPT ![i] = "running"]
       ELSE /\ pidFile' = pidFile
            /\ daemonState' = [daemonState EXCEPT ![i] = "exited"]
  /\ UNCHANGED << startRest, startPc >>

\* The daemon ends: on SIGTERM or SIGINT the shutdown handler removes the
\* PID file; a killed or crashed daemon leaves it.
DaemonEnds(i) ==
  /\ daemonState[i] = "running"
  /\ \E graceful \in BOOLEAN :
       pidFile' = IF graceful THEN NoPid ELSE pidFile
  /\ daemonState' = [daemonState EXCEPT ![i] = "exited"]
  /\ UNCHANGED << startRest, startPc >>

NextStart ==
  \E i \in Starts :
    \/ CheckRunning(i)
    \/ Prepare(i)
    \/ SpawnDaemon(i)
    \/ RunDaemon(i)
    \/ DaemonEnds(i)

SpecStart == InitStart /\ [][NextStart]_vars

\* ------------------------------------------------- fetchLatestActivities

\* The timeline events of the issue are numbered 1..eventCount, oldest
\* first; the feed serves them in pages of per_page items.
MaxEvents == 9

\* The limits fetchLatestActivities is called with (per_page = limit).
MaxLimit == 3

\* What fetchLatestActivities does not touch.
walkRest ==
  << pc, daemonVars, cycleVars, reduceVars, transformVars, workflowVars,
     filterVars, formatVars, validateVars, intervalVars, enrichVars,
     startVars >>

\* The page of the timeline the feed returns for page= and per_page=.
pageItems(page, perPage, count) ==
  LET first == (page - 1) * perPage + 1
      last == IF page * perPage < count THEN page * perPage ELSE count
  IN [i \in 1..(IF last >= first THEN last - first + 1 ELSE 0) |-> first + i - 1]

\* The page number of rel="last" in the Link header of the first response;
\* the feed sends no Link header (0) when everything fits one page, and no
\* request is made for a limit of 0.
lastOfLinkHeader(perPage, count) ==
  IF perPage <= 0 \/ count <= perPage THEN 0
  ELSE (count + perPage - 1) \div perPage

\* slice(0, limit): the first items instead of the last.
sliceFirst(items, n) ==
  SubSeq(items, 1, IF Len(items) < n THEN Len(items) ELSE n)

\* combinedItems.slice(-limit): the last limit items.
sliceLast(items, n) ==
  SubSeq(items, IF Len(items) > n THEN Len(items) - n + 1 ELSE 1, Len(items))

InitWalk ==
  /\ now = 1
  /\ userConfig \in {given \in UserConfigs : given.skipThreads = << >>}
  /\ config = applyDefaults(userConfig)
  /\ InitDaemon
  /\ input = << >>
  /\ output = << >>
  /\ applied = << >>
  /\ timeline = << >>
  /\ shaped = << >>
  /\ transformed = FALSE
  /\ InitWorkflowIdle
  /\ InitFilterIdle
  /\ InitFormatIdle
  /\ InitValidateIdle
  /\ InitIntervalIdle
  /\ InitEnrichIdle
  /\ InitStartIdle
  /\ eventCount \in 0..MaxEvents
  /\ limit \in 0..MaxLimit
  /\ walkPc = "start"
  /\ currentPage = 0
  /\ combinedItems = << >>
  /\ walked = << >>
  /\ latest = << >>

\* fetchLatestActivities up to the loop: nothing for a limit of 0; the first
\* request; the first page is the answer when there is no Link header.
FirstRequest ==
  /\ walkPc = "start"
  /\ LET last == lastOfLinkHeader(limit, eventCount)
     IN IF limit <= 0
        THEN /\ latest' = << >>
             /\ walkPc' = "done"
             /\ currentPage' = currentPage
        ELSE IF last = 0
        THEN /\ latest' = pageItems(1, limit, eventCount)
             /\ walkPc' = "done"
             /\ currentPage' = currentPage
        ELSE /\ latest' = latest
             /\ walkPc' = "walk"
             /\ currentPage' = last
  /\ UNCHANGED << walkRest, eventCount, limit, combinedItems, walked >>

\* One turn of the while loop: request currentPage and put it in front.
WalkPage ==
  /\ walkPc = "walk"
  /\ Len(combinedItems) < limit /\ currentPage >= 1
  /\ combinedItems' = pageItems(currentPage, limit, eventCount) \o combinedItems
  /\ walked' = Append(walked, currentPage)
  /\ currentPage' = currentPage - 1
  /\ UNCHANGED << walkRest, eventCount, limit, walkPc, latest >>

\* The loop is left: return combinedItems.slice(-limit).
ReturnLatest ==
  /\ walkPc = "walk"
  /\ ~(Len(combinedItems) < limit /\ currentPage >= 1)
  /\ latest' = sliceLast(combinedItems, limit)
  /\ walkPc' = "done"
  /\ UNCHANGED << walkRest, eventCount, limit, currentPage, combinedItems, walked >>

NextWalk ==
  \/ FirstRequest
  \/ WalkPage
  \/ ReturnLatest

SpecWalk == InitWalk /\ [][NextWalk]_vars

\* ------------------------------------------------------------------ claims

IdsOf(threads) == [i \in DOMAIN threads |-> threads[i].id]

IdSet(threads) == {threads[i].id : i \in DOMAIN threads}

IsFallback(delivery) == delivery.activity.event = NONE

\* Two sends carry the same key: (thread id, event kind, createdAt) for an
\* activity, (thread id, updatedAt) for a thread-level fallback.
SameKey(d, e) ==
  /\ d.thread = e.thread
  /\ IsFallback(d) = IsFallback(e)
  /\ IF IsFallback(d)
     THEN d.updatedAt = e.updatedAt
     ELSE /\ d.activity.event = e.activity.event
          /\ d.activity.createdAt = e.activity.createdAt

\* Two sends are the same logical notification: the same thread and, for an
\* activity, the same event kind, createdAt and actor; for a thread-level
\* fallback, the same updatedAt.
SameNotification(d, e) ==
  /\ d.thread = e.thread
  /\ IsFallback(d) = IsFallback(e)
  /\ IF IsFallback(d)
     THEN d.updatedAt = e.updatedAt
     ELSE /\ d.activity.event = e.activity.event
          /\ d.activity.createdAt = e.activity.createdAt
          /\ d.activity.actor = e.activity.actor

\* The sends of the latest cycle that are for the given activity of a thread.
SendsOf(id, activity) ==
  {j \in DOMAIN sent :
     /\ sent[j].thread = id
     /\ ~IsFallback(sent[j])
     /\ sent[j].activity.event = activity.event
     /\ sent[j].activity.createdAt = activity.createdAt
     /\ sent[j].activity.actor = activity.actor}

\* The thread-level sends for a thread update.
FallbackSendsOf(thread) ==
  {j \in DOMAIN sent :
     /\ sent[j].thread = thread.id
     /\ IsFallback(sent[j])
     /\ sent[j].updatedAt = thread.updatedAt}

\* The latest cycle ran to its end.
CycleCompleted == pc = "sleep" /\ outcome = "completed"

\* The workflow pass filter suppressed the thread in the latest cycle.
Suppressed(thread) ==
  /\ thread.subject.type \in {"WorkflowRun", "CheckSuite"}
  /\ extractBranchFromSubject(thread.subject.title) # NONE
  /\ << thread.repository, extractBranchFromSubject(thread.subject.title) >>
       \in DOMAIN workflowPassCache
  /\ workflowPassCache[<< thread.repository,
                          extractBranchFromSubject(thread.subject.title) >>]

\* C1: over all poll cycles of one process, sendNotification is called at most
\* once for a logical notification (an activity of a thread, or a thread
\* update), even when polls return overlapping data.  Two sends count as the
\* same notification only if the actor agrees too, so that two people acting
\* in the same instant are not taken for a repeated send.
C1_AtMostOnce ==
  \A i, j \in DOMAIN sent : i < j => ~SameNotification(sent[i], sent[j])

\* C2: when two consecutive completed cycles got the same feed response and
\* the same timelines, no notification is delivered twice: the second cycle
\* delivers nothing the first one delivered.
C2_ReplayDeliversOnce ==
  (CycleCompleted /\ lastCycle.completed /\ IsReplay(rawThreads, results))
    => \A i, j \in DOMAIN sent :
         /\ (sent[i].poll = polls - 1 /\ sent[j].poll = polls)
              => ~SameKey(sent[i], sent[j])
         /\ (i < j /\ sent[i].poll >= polls - 1)
              => ~SameNotification(sent[i], sent[j])

C2_Witness ==
  /\ CycleCompleted /\ lastCycle.completed /\ IsReplay(rawThreads, results)
  /\ Len(results["T1"].items) = 2
  /\ Len(rawThreads) = 2
  /\ Cardinality({j \in DOMAIN sent : sent[j].poll = polls - 1}) >= 2
  /\ \A j \in DOMAIN sent : sent[j].poll # polls

\* C3: an activity a completed cycle ends up with for a kept thread, whose
\* createdAt is later than every timestamp seen in earlier cycles, is
\* delivered in that cycle.
C3_LaterIsDelivered ==
  CycleCompleted =>
    \A i \in DOMAIN kept : \A k \in DOMAIN kept[i].activities :
      kept[i].activities[k].createdAt > seenBefore
        => \E j \in SendsOf(kept[i].id, kept[i].activities[k]) : sent[j].poll = polls

\* C4: at the end of a completed cycle every activity it ends up with for a
\* kept thread that is not workflow-suppressed, and every such thread without
\* activities, has been delivered exactly once so far.
C4_NothingLost ==
  CycleCompleted =>
    \A i \in DOMAIN kept :
      ~Suppressed(kept[i]) =>
        IF Len(kept[i].activities) > 0
        THEN \A k \in DOMAIN kept[i].activities :
               Cardinality(SendsOf(kept[i].id, kept[i].activities[k])) = 1
        ELSE Cardinality(FallbackSendsOf(kept[i])) = 1

\* C5: a skipped thread gets no timeline fetch and no alert in its cycle;
\* timelines are fetched and alerts sent for kept threads only.
C5_SkippedUntouched ==
  /\ timelineFetches \subseteq IdSet(kept)
  /\ \A j \in DOMAIN sent : sent[j].poll = polls => sent[j].thread \in IdSet(kept)
  /\ \A i \in DOMAIN skipped :
       /\ skipped[i].id \notin timelineFetches
       /\ \A j \in DOMAIN sent : sent[j].poll = polls => sent[j].thread # skipped[i].id

C5_Witness ==
  /\ CycleCompleted
  /\ \E i \in DOMAIN skipped : needsTimeline(skipped[i])
  /\ \E j \in DOMAIN sent : sent[j].poll = polls

\* C6: filterThreads puts each unread thread in exactly one of kept/skipped,
\* skipped exactly when some predicate returns true, in feed order; a read
\* thread is in neither and is never enriched, marked read or notified.
C6_FilterThreadsPartition ==
  /\ IdSet(kept) \cup IdSet(skipped) \subseteq IdSet(rawThreads)
  /\ IdSet(kept) \cap IdSet(skipped) = {}
  /\ IdsOf(kept) = IdsOf(SelectSeq(rawThreads, LAMBDA t : t.id \in IdSet(kept)))
  /\ IdsOf(skipped) = IdsOf(SelectSeq(rawThreads, LAMBDA t : t.id \in IdSet(skipped)))
  /\ \A i \in DOMAIN rawThreads :
       LET t == rawThreads[i]
           matched == \E k \in DOMAIN config.skipThreads :
                        ThreadFilterResult(config.skipThreads[k], t) = "true"
       IN IF t.unread
          THEN /\ t.id \in IdSet(kept) \cup IdSet(skipped)
               /\ t.id \in IdSet(skipped) <=> matched
          ELSE /\ t.id \notin IdSet(kept) \cup IdSet(skipped)
               /\ t.id \notin timelineFetches
               /\ \A k \in DOMAIN markReadCalls : markReadCalls[k].thread # t.id
               /\ \A j \in DOMAIN sent : sent[j].poll = polls => sent[j].thread # t.id

C6_Witness ==
  /\ CycleCompleted
  /\ Len(rawThreads) = 2
  /\ ~rawThreads[1].unread
  /\ Len(skipped) = 1
  /\ Len(markReadCalls) = 1

\* The activities the activity filter must let through: not the viewer's own
\* (when the viewer is known) and matched by no predicate; a predicate that
\* throws does not match.
ExpectedFiltered(thread) ==
  SelectSeq(Shaped(thread.id),
    LAMBDA a :
      /\ ~(viewerLogin # NONE /\ a.actor = viewerLogin)
      /\ ~\E k \in DOMAIN config.skipActivities :
            ActivityFilterResult(config.skipActivities[k], thread, a) = "true")

\* C7: a predicate that throws counts as false: the remaining predicates are
\* still evaluated, a thread or activity is skipped exactly when one of them
\* returns true, and the filter stage goes on.
C7_ThrowingPredicateIsFalse ==
  /\ \A i \in DOMAIN rawThreads :
       rawThreads[i].unread =>
         (rawThreads[i].id \in IdSet(skipped)
            <=> \E k \in DOMAIN config.skipThreads :
                  ThreadFilterResult(config.skipThreads[k], rawThreads[i]) = "true")
  /\ pc \in {"notify", "sleep"} =>
       \A i \in DOMAIN kept :
         reduced[kept[i].id] = reduceActivities(ExpectedFiltered(kept[i]))

C7_Witness ==
  /\ CycleCompleted
  /\ Len(config.skipThreads) = 2 /\ config.skipThreads[1] = "throws"
  /\ Len(config.skipActivities) = 3 /\ config.skipActivities[1] = "throws"
  /\ IdsOf(skipped) = << "T2" >>
  /\ IdsOf(kept) = << "T1" >>
  /\ Len(Shaped("T1")) = 2
  /\ Len(reduced["T1"]) = 1
  /\ \E k \in DOMAIN Shaped("T1") : Shaped("T1")[k].actor = "dependabot[bot]"
  /\ \E j \in DOMAIN sent : sent[j].poll = polls /\ sent[j].thread = "T1"

\* C8: no alert is ever delivered for an activity whose actor is the
\* authenticated viewer.
C8_NoSelfActivity ==
  \A j \in DOMAIN sent : sent[j].activity.actor # Viewer

\* The group a record belongs to: the actor and the event kind, with the
\* review state for a review, and the committer-or-author name as the actor
\* of a commit.
GroupOf(activity) ==
  [actor |-> IF activity.event = "committed"
             THEN IF activity.committer # NONE THEN activity.committer
                  ELSE activity.author
             ELSE activity.actor,
   event |-> activity.event,
   state |-> IF activity.event = "reviewed" THEN activity.state ELSE NONE]

\* C9: reduceActivities is idempotent: reducing a reduced list gives the
\* reduced list again, in every field of every record, count included.
C9_ReduceIdempotent ==
  applied = << "reduce", "reduce" >> => output = reduceActivities(input)

\* C10: after reduction a list holds at most one record per group: (actor,
\* event kind), with the review state for reviews and the committer-or-author
\* name as the actor of commits.
C10_OneRecordPerGroup ==
  (applied # << >> /\ applied[Len(applied)] = "reduce") =>
    \A i, j \in DOMAIN output :
      GroupOf(output[i]) = GroupOf(output[j]) => i = j

C10_Witness ==
  /\ applied = << "reduce" >>
  /\ Len(input) = 3
  /\ Len(output) = 2
  /\ \E i \in DOMAIN output : output[i].event = "reviewed" /\ output[i].count = 2
  /\ \E i \in DOMAIN output : output[i].event = "committed"

\* C11: reduceActivities merges two activities if and only if they have the
\* same event kind and the same actor (the committer-or-author name for a
\* commit) and, for reviews, the same state: the output has one record per
\* such group, and its count is the number of input activities of the group.
C11_MergedIffSameGroup ==
  applied = << "reduce" >> =>
    /\ Len(output) = Cardinality({GroupOf(input[i]) : i \in DOMAIN input})
    /\ \A k \in DOMAIN output :
         output[k].count =
           Cardinality({i \in DOMAIN input : GroupOf(input[i]) = GroupOf(output[k])})

\* The input positions of the reducer's group with the given key.
MembersOf(key) == {i \in DOMAIN input : getActivityGroupKey(input[i]) = key}

\* The position of a group's last occurrence in the input.
LastOf(key) == CHOOSE i \in MembersOf(key) : \A j \in MembersOf(key) : j <= i

\* C12: for every group the record reduceActivities outputs is the group's
\* last occurrence in the input (createdAt, body, state and all other fields)
\* with count set to the number of input activities of the group.
C12_LastPayloadAndCount ==
  applied = << "reduce" >> =>
    /\ \A i \in DOMAIN input :
         \E k \in DOMAIN output :
           getActivityGroupKey(output[k]) = getActivityGroupKey(input[i])
    /\ \A k \in DOMAIN output :
         LET key == getActivityGroupKey(output[k])
         IN /\ MembersOf(key) # {}
            /\ output[k] = [input[LastOf(key)] EXCEPT
                              !.count = Cardinality(MembersOf(key))]

C12_Witness ==
  /\ applied = << "reduce" >>
  /\ Len(input) = 3
  /\ input[1].createdAt < input[3].createdAt
  /\ input[1].body # input[2].body
  /\ input[1].actor = "alice" /\ input[2].actor = "alice" /\ input[3].actor = "alice"
  /\ Len(output) = 1
  /\ output[1].count = 3
  /\ output[1].createdAt = input[3].createdAt

\* C13: the output of reduceActivities is ordered by the input position of
\* each group's last occurrence, not by the group's first appearance.
C13_OrderedByLastOccurrence ==
  applied = << "reduce" >> =>
    \A k, l \in DOMAIN output :
      k < l => LastOf(getActivityGroupKey(output[k]))
                 < LastOf(getActivityGroupKey(output[l]))

C13_Witness ==
  /\ applied = << "reduce" >>
  /\ Len(input) = 3
  /\ getActivityGroupKey(input[1]) = getActivityGroupKey(input[3])
  /\ getActivityGroupKey(input[1]) # getActivityGroupKey(input[2])
  /\ Len(output) = 2
  /\ output[1].actor = input[2].actor
  /\ output[2].actor = input[1].actor
  /\ input[1].actor # input[2].actor

\* The list after the transforms named in ops are applied to it, in order.
RECURSIVE Transformed(_, _)
Transformed(list, ops) ==
  IF ops = << >> THEN list
  ELSE Transformed(IF Head(ops) = "reduce" THEN reduceActivities(list)
                   ELSE collapseMergeActivities(list),
                   Tail(ops))

\* The list the latest transform was applied to.
BeforeLast == Transformed(input, SubSeq(applied, 1, Len(applied) - 1))

\* The positions of the 'merged' activities of a list.
MergesOf(list) == {i \in DOMAIN list : list[i].event = "merged"}

\* C14: collapseMergeActivities returns its input unchanged when there is no
\* 'merged' activity or the first one leads the list; otherwise, with k
\* activities before the first merge, it returns that merge with
\* preMergeCount = k, followed by what came after it, unchanged and in order,
\* and none of the k activities before it.
C14_CollapseAtFirstMerge ==
  (applied # << >> /\ applied[Len(applied)] = "collapse") =>
    LET pre == BeforeLast
        merges == MergesOf(pre)
    IN IF merges = {} \/ 1 \in merges
       THEN output = pre
       ELSE LET m == CHOOSE i \in merges : \A j \in merges : i <= j
            IN /\ Len(output) = Len(pre) - (m - 1)
               /\ output[1] = [pre[m] EXCEPT !.preMergeCount = m - 1]
               /\ \A j \in 2..Len(output) : output[j] = pre[j + m - 1]

C14_Witness ==
  /\ applied = << "reduce", "collapse" >>
  /\ Len(input) = 3
  /\ Len(BeforeLast) = 3
  /\ BeforeLast[2].event = "merged"
  /\ Len(output) = 2
  /\ output[1].event = "merged" /\ output[1].preMergeCount = 1
  /\ output[2] = BeforeLast[3]

\* C15: with a user config that does not mention collapseMergedPrActivities
\* the option is on: every cycle leaves each kept PullRequest thread with the
\* merge-collapsed form of its reduced activities.
C15_CollapseOnByDefault ==
  (pc \in {"notify", "sleep"}
     /\ userConfig.collapseMergedPrActivities = "undefined") =>
    \A i \in DOMAIN kept :
      kept[i].subject.type = "PullRequest" =>
        kept[i].activities = collapseMergeActivities(reduced[kept[i].id])

\* The activity passes the activity filter: it is not the viewer's own and
\* no skip predicate returns true for it.
Passes(thread, a) ==
  /\ ~(viewerLogin # NONE /\ a.actor = viewerLogin)
  /\ ~\E k \in DOMAIN config.skipActivities :
        ActivityFilterResult(config.skipActivities[k], thread, a) = "true"

\* The positions, in a thread's shaped timeline, of the passing activities
\* that share the group of the given record.
PassingOf(thread, record) ==
  {j \in DOMAIN Shaped(thread.id) :
     /\ Passes(thread, Shaped(thread.id)[j])
     /\ getActivityGroupKey(Shaped(thread.id)[j]) = getActivityGroupKey(record)}

LatestIn(positions) == CHOOSE j \in positions : \A h \in positions : h <= j

\* C16: the activity filter runs before reduction: every reduced record of a
\* kept thread is the last passing activity of its group, counts only the
\* passing activities of the group and is placed by them, and every activity
\* delivered in the cycle carries such a count.
C16_FilterBeforeReduce ==
  pc \in {"notify", "sleep"} =>
    \A i \in DOMAIN kept :
      LET thread == kept[i]
          records == reduced[thread.id]
      IN /\ \A k \in DOMAIN records :
              /\ PassingOf(thread, records[k]) # {}
              /\ records[k].count = Cardinality(PassingOf(thread, records[k]))
              /\ records[k] =
                   [Shaped(thread.id)[LatestIn(PassingOf(thread, records[k]))]
                      EXCEPT !.count = records[k].count]
         /\ \A k, l \in DOMAIN records :
              k < l => LatestIn(PassingOf(thread, records[k]))
                         < LatestIn(PassingOf(thread, records[l]))
         /\ \A j \in DOMAIN sent :
              (sent[j].poll = polls /\ sent[j].thread = thread.id
                 /\ ~IsFallback(sent[j])) =>
                /\ Passes(thread, sent[j].activity)
                /\ sent[j].activity.count
                     = Cardinality(PassingOf(thread, sent[j].activity))

C16_Witness ==
  /\ CycleCompleted
  /\ \E i \in DOMAIN kept :
       /\ Len(Shaped(kept[i].id)) = 2
       /\ ~Passes(kept[i], Shaped(kept[i].id)[1])
       /\ Passes(kept[i], Shaped(kept[i].id)[2])
       /\ getActivityGroupKey(Shaped(kept[i].id)[1])
            = getActivityGroupKey(Shaped(kept[i].id)[2])
       /\ \E j \in DOMAIN sent :
            /\ sent[j].poll = polls /\ sent[j].thread = kept[i].id
            /\ sent[j].activity.count = 1

\* The sends a step appends for a thread.
NewSendsOf(id) == {j \in (Len(sent) + 1)..Len(sent') : sent'[j].thread = id}

MarkedIds == [k \in DOMAIN markReadCalls |-> markReadCalls[k].thread]

\* C18: mark-as-read calls are made only with markSkippedAsRead on, for the
\* skipped threads only, once each, whether or not earlier calls failed; the
\* mark-as-read stage leaves the kept threads and everything the delivery
\* depends on untouched.
C18_MarkSkippedOnly ==
  /\ [](/\ markReadCalls # << >> => config.markSkippedAsRead
        /\ pc = "markRead" => markReadCalls = << >>
        /\ pc # "markRead" =>
             MarkedIds = IF config.markSkippedAsRead THEN IdsOf(skipped) ELSE << >>)
  /\ [][pc = "markRead" =>
          UNCHANGED << kept, skipped, rawThreads, sent, lastProcessedTime,
                       workflowPassCache, cachedViewerLogin, since >>]_vars

C18_Witness ==
  /\ CycleCompleted
  /\ IdsOf(skipped) = << "T1", "T2" >>
  /\ Len(markReadCalls) = 2
  /\ ~markReadCalls[1].ok
  /\ markReadCalls[2].thread = "T2"

\* C19: in the list transformTimeline produces no 'closed' activity directly
\* follows a 'merged' activity.
C19_NoClosedAfterMerged ==
  transformed =>
    \A i \in 1..(Len(shaped) - 1) :
      ~(shaped[i].event = "merged" /\ shaped[i + 1].event = "closed")

\* C20: a kept thread's notification is suppressed by the workflow pass
\* filter exactly when it is a WorkflowRun or CheckSuite, its title names a
\* branch, and the latest run of the branch is known to have completed with
\* success, from the cache or else from a fetch; a thread of another kind or
\* without a branch in its title causes no workflow-run fetch.
C20_SuppressedIffKnownPass ==
  ciApplied =>
    LET isCI == ciThread.subject.type \in {"WorkflowRun", "CheckSuite"}
        branch == extractBranchFromSubject(ciThread.subject.title)
        key == << ciThread.repository, branch >>
        passed == IF key \in DOMAIN ciCache THEN ciCache[key]
                  ELSE /\ ciRun.ok
                       /\ ciRun.status = "completed"
                       /\ ciRun.conclusion = "success"
    IN /\ ciDone.sent = << >> <=> (isCI /\ branch # NONE /\ passed)
       /\ Len(ciDone.sent) <= 1
       /\ (~isCI \/ branch = NONE) => ciDone.fetched = {}

C20_Witness ==
  /\ ciApplied
  /\ ciThread.subject.type = "CheckSuite"
  /\ extractBranchFromSubject(ciThread.subject.title) # NONE
  /\ ciCache = << >>
  /\ ciRun.conclusion = "success"
  /\ ciDone.fetched = {"T2"}
  /\ ciDone.sent = << >>
  /\ ciDone.cache # << >>

\* The sends a step adds.
NewSends == {j \in DOMAIN sent' : j > Len(sent)}

\* C21: no two poll cycles overlap. A cycle starts only when the loop is at
\* its top, the cycle before it (if any) has ended, completed or failed, and
\* the clock has moved since that cycle started; the watermark and the
\* workflow-pass cache change only in the notify stage of the one running
\* cycle, and every send belongs to the running cycle.
C21_CyclesDoNotOverlap ==
  [][/\ polls' # polls =>
          /\ pc = "idle"
          /\ polls' = polls + 1
          /\ polls > 0 => (outcome \in {"completed", "failed"}
                             /\ now > requestStartTime)
     /\ (lastProcessedTime' # lastProcessedTime
           \/ workflowPassCache' # workflowPassCache) =>
          (pc = "notify" /\ polls' = polls /\ pc' \in {"sleep", "stopped"})
     /\ \A j \in NewSends : pc = "notify" /\ sent'[j].poll = polls]_vars

C21_Witness ==
  /\ polls = 2
  /\ pc = "sleep"
  /\ outcome = "completed"
  /\ lastCycle.completed
  /\ \E j \in DOMAIN sent : sent[j].poll = 1
  /\ \E j \in DOMAIN sent : sent[j].poll = 2
  /\ lastProcessedTime = MaxTime
  /\ workflowPassCache # << >>

\* C22: the polling loop never stops on its own: whatever a poll cycle did,
\* completed or failed, the loop is still running afterwards.
C22_LoopNeverStops == pc # "stopped"

\* C23: running the skip predicates cannot change pipeline state: after the
\* thread filter and the activity filter the thread's fields are what they
\* were, and every activity that is kept is an activity enrichment produced,
\* unchanged.
C23_PredicatesCannotMutate ==
  /\ [fAfter EXCEPT !.activities = << >>] = [fThread EXCEPT !.activities = << >>]
  /\ \A k \in DOMAIN fAfter.activities :
       \E j \in DOMAIN fThread.activities :
         fAfter.activities[k] = fThread.activities[j]

\* C24: a thread-level fallback notification is delivered for a kept thread
\* only when enrichment produced no activities for it; it is never delivered
\* for a thread whose enrichment produced at least one activity.
C24_FallbackOnlyWithoutActivities ==
  \A j \in DOMAIN sent :
    (sent[j].poll = polls /\ IsFallback(sent[j]))
      => /\ sent[j].thread \in IdSet(kept)
         /\ Shaped(sent[j].thread) = << >>

\* C25: formatActivityNotification returns null only for event kinds the
\* enricher does not recognise: an activity of any kind of the dispatch table
\* of transformTimelineItem is formatted to a title and a body.
C25_NullOnlyForUnknownKinds ==
  fmtDone =>
    /\ fmtResult.isNull => fmtActivity.event \notin TrackedEvents
    /\ ~fmtResult.isNull => (fmtResult.title # << >> /\ fmtResult.body # << >>)

\* The title the activity would get with a count of 1.
SingularTitle ==
  formatActivityTitle([fmtActivity EXCEPT !.count = 1],
                      getUserDisplayName(IF fmtActivity.actor # NONE
                                         THEN fmtActivity.actor ELSE "Someone",
                                         UserAliases),
                      "Fix login bug", UserAliases, fmtViewer)

\* The event kinds (with the review state) whose title pluralizes.
Pluralizes(activity) ==
  \/ activity.event \in {"commented", "line-commented", "committed"}
  \/ activity.event = "reviewed" /\ activity.state \in {"commented", "dismissed"}

\* The event kinds whose title is the same for every count.
CountFree(activity) ==
  \/ activity.event \in {"merged", "closed", "reopened"}
  \/ activity.event = "reviewed"
       /\ activity.state \in {"approved", "changes_requested"}

\* C26: for the kinds that pluralize the title is the plural one, different
\* from the title of a single activity, exactly when count > 1; for approved
\* and changes-requested reviews, merges, closes and reopens the title is the
\* same for every count; a merge title ends in '+ earlier activities' exactly
\* when preMergeCount is at least 1.
C26_PluralIffCountAboveOne ==
  fmtDone =>
    /\ Pluralizes(fmtActivity) =>
         (fmtResult.title # SingularTitle <=> fmtActivity.count > 1)
    /\ CountFree(fmtActivity) => fmtResult.title = SingularTitle
    /\ fmtActivity.event = "merged" =>
         (fmtResult.title[Len(fmtResult.title)] = "+ earlier activities"
            <=> fmtActivity.preMergeCount >= 1)

\* The type GhPingUserConfig declares for a property.
DeclaredType(field) ==
  IF field \in {"skipThreads", "skipActivities"} THEN "array"
  ELSE IF field \in {"repoAliases", "userAliases"} THEN "object"
  ELSE "boolean"

\* The properties and array elements of the config that do not have the type
\* GhPingUserConfig declares, as (property, index) pairs.
Offending ==
  {<< f, -1 >> : f \in {g \in ConfigFields :
                          /\ vConfig.fields[g].type # "undefined"
                          /\ vConfig.fields[g].type # DeclaredType(g)}}
  \cup {<< p[1], p[2] - 1 >> :
          p \in {q \in {"skipThreads", "skipActivities"} \X (1..MaxTimeline) :
                   /\ vConfig.fields[q[1]].type = "array"
                   /\ q[2] \in DOMAIN vConfig.fields[q[1]].items
                   /\ vConfig.fields[q[1]].items[q[2]] # "function"}}

\* C27: validateConfig returns no error when every present property has the
\* declared type, and otherwise exactly one error per offending property or
\* array element, all of them; for a config that is null or not an object it
\* returns the single error 'Config must be an object'.
C27_OneErrorPerOffence ==
  vDone =>
    IF vConfig.type # "object"
    THEN vErrors = << Message("config", -1, "must be an object") >>
    ELSE /\ {<< vErrors[k].field, vErrors[k].index >> : k \in DOMAIN vErrors}
              = Offending
         /\ Len(vErrors) = Cardinality(Offending)

\* A timestamp passes the delivery gate of the running cycle.
PassesGate(time) == lastProcessedTime = NoTime \/ time > lastProcessedTime

\* The timestamps that qualify in the completing notify step: of the kept
\* threads the workflow filter does not suppress, the createdAt of the
\* activities that pass the gate and, for a thread without activities, its
\* updatedAt if it passes the gate.
QualifiedTimes ==
  UNION {IF kept[i].activities # << >>
         THEN {kept[i].activities[k].createdAt : k \in
                 {n \in DOMAIN kept[i].activities :
                    PassesGate(kept[i].activities[n].createdAt)}}
         ELSE {t \in {kept[i].updatedAt} : PassesGate(t)} :
           i \in {n \in DOMAIN kept : ~Suppressed(kept[n])'}}

\* C28: at the end of every completed poll cycle lastProcessedTime is the
\* latest timestamp that qualified in the cycle or, if nothing qualified, the
\* start time of that poll.
C28_WatermarkIsCycleMax ==
  [][(pc = "notify" /\ pc' = "sleep" /\ outcome' = "completed") =>
       lastProcessedTime' = IF QualifiedTimes = {} THEN requestStartTime
                            ELSE latestOf(QualifiedTimes)]_vars

\* C28, amended: at the end of every completed poll cycle lastProcessedTime
\* is the latest timestamp that qualified in the cycle; if nothing qualified
\* it is the start time of that poll when no watermark was set before, and
\* otherwise the value it had when the cycle began.
C28_WatermarkIsCycleMaxOrKept ==
  [][(pc = "notify" /\ pc' = "sleep" /\ outcome' = "completed") =>
       lastProcessedTime' = IF QualifiedTimes # {} THEN latestOf(QualifiedTimes)
                            ELSE IF lastProcessedTime = NoTime THEN requestStartTime
                            ELSE lastProcessedTime]_vars

\* A later poll of an empty feed has completed and the watermark is still
\* the one the first poll set, earlier than the start of this poll.
C28_Witness ==
  /\ pc = "sleep" /\ outcome = "completed" /\ polls >= 2
  /\ rawThreads = << >>
  /\ lastProcessedTime # NoTime
  /\ lastProcessedTime < requestStartTime

\* The cache keys the workflow pass filter looks up for a list of kept
\* threads: the (repository, branch) of every CI thread whose title names a
\* branch.
LookedUp(threads) ==
  {<< threads[i].repository, extractBranchFromSubject(threads[i].subject.title) >> :
     i \in {n \in DOMAIN threads :
              /\ threads[n].subject.type \in {"WorkflowRun", "CheckSuite"}
              /\ extractBranchFromSubject(threads[n].subject.title) # NONE}}

\* C29: once the workflow pass filter has looked a (repository, branch) key
\* up the cache holds an entry for it, and an entry is never changed or
\* removed afterwards, so no key is fetched more than once.
C29_CacheFilledOnFirstLookup ==
  [][/\ \A key \in DOMAIN workflowPassCache :
          /\ key \in DOMAIN workflowPassCache'
          /\ workflowPassCache'[key] = workflowPassCache[key]
     /\ (pc = "notify" /\ pc' = "sleep" /\ outcome' = "completed") =>
          LookedUp(kept) \subseteq DOMAIN workflowPassCache']_vars

\* C30: a poll cycle that fails leaves the carry-over state as it was: from
\* the step that starts the cycle to the start of the next cycle, since,
\* pollIntervalSec and lastProcessedTime change in no step other than the
\* one that completes a cycle.
C30_FailedCycleKeepsCarryOver ==
  [][~(pc = "notify" /\ outcome' = "completed") =>
       /\ since' = since
       /\ pollIntervalSec' = pollIntervalSec
       /\ lastProcessedTime' = lastProcessedTime]_vars

\* A cycle failed in its notify stage after delivering something, following a
\* completed cycle that set the cursor, the watermark and an advised interval
\* of 120 seconds; the loop is waiting for the next cycle.
C30_Witness ==
  /\ pc = "sleep" /\ outcome = "failed" /\ polls >= 2
  /\ since # NoTime /\ lastProcessedTime # NoTime /\ pollIntervalSec = 120
  /\ \E i \in DOMAIN sent : sent[i].poll = polls

\* C31: the delay before the next cycle is the interval the feed advised in
\* the latest poll that returned; it is 60 seconds when that header was
\* absent, zero or not a number, and before any poll has returned.
C31_DelayIsAdvisedOrDefault ==
  (pc = "idle" /\ polls > 0) =>
    delayMs = 1000 * (IF pollReturned /\ xPollInterval \notin {-1, NaN, 0}
                      THEN xPollInterval ELSE 60)

\* The first poll returned advising 120 seconds, the second threw, and the
\* loop has waited 120 seconds after it.
C31_Witness ==
  /\ pc = "idle" /\ polls = 2 /\ outcome = "failed"
  /\ pollReturned /\ xPollInterval = 120
  /\ delayMs = 120000

\* The subject is an Issue or a PullRequest and its API locator ends in
\* /issues/<digits> or /pulls/<digits>.
HasTimelineLocator(thread) ==
  /\ thread.subject.type \in {"Issue", "PullRequest"}
  /\ thread.subject.url.segment \in {"issues", "pulls"}
  /\ thread.subject.url.number >= 0

\* C32: enrichThread issues the timeline fetch only for an Issue or
\* PullRequest thread whose API locator ends in /issues/<n> or /pulls/<n>;
\* for every other thread it issues no fetch and leaves the activity list
\* empty.
C32_FetchOnlyForIssuesAndPulls ==
  eDone =>
    /\ eFetched => HasTimelineLocator(eThread)
    /\ ~HasTimelineLocator(eThread) => (~eFetched /\ eAfter = << >>)

\* enrichThread fetched the timeline of a pull request at .../pulls/7 and
\* attached activities to it.
C32_Witness ==
  /\ eDone /\ eFetched /\ eAfter # << >>
  /\ eThread.subject.type = "PullRequest"
  /\ eThread.subject.url = [segment |-> "pulls", number |-> 7]

\* C33: the viewer lookup is issued at most once: once fetchViewerLogin has
\* completed, with a login or with null, the cached value never changes and
\* every later cycle gets that value without a request.
C33_ViewerLookedUpOnce ==
  [][/\ viewerLookups' <= 1
     /\ cachedViewerLogin # "undefined" =>
          /\ cachedViewerLogin' = cachedViewerLogin
          /\ viewerLookups' = viewerLookups
          /\ (pc = "enrich" /\ pc' = "notify") =>
               viewerLogin' = cachedViewerLogin]_vars

\* The lookup failed in the first cycle and the second cycle has passed the
\* lookup with the cached null, one request in all.
C33_Witness ==
  /\ polls = 2 /\ pc = "notify"
  /\ cachedViewerLogin = NONE /\ viewerLogin = NONE
  /\ viewerLookups = 1

\* C34: the delivery watermark never moves backwards: once lastProcessedTime
\* is set, no step lowers it or resets it to null.
C34_WatermarkMonotonic ==
  [][lastProcessedTime # NoTime =>
       /\ lastProcessedTime' # NoTime
       /\ lastProcessedTime' >= lastProcessedTime]_vars

\* Two completed cycles that both delivered: the first set the watermark and
\* the second moved it forward to the latest time.
C34_Witness ==
  /\ pc = "sleep" /\ polls = 2 /\ outcome = "completed" /\ lastCycle.completed
  /\ \E i \in DOMAIN sent : sent[i].poll = 1
  /\ \E i \in DOMAIN sent : sent[i].poll = 2
  /\ lastProcessedTime = MaxTime

\* The updatedAt values of all the threads the running poll fetched, read and
\* skipped ones included.
ReturnedTimes == {rawThreads[i].updatedAt : i \in DOMAIN rawThreads}

\* C35: the since cursor never moves backwards and is never reset to null;
\* the cursor a completed cycle returns is the later of the previous cursor
\* and the largest updatedAt among all the threads the cycle fetched, or the
\* start time of the poll when nothing was fetched and there was no cursor.
C35_CursorMonotonic ==
  [][/\ since # NoTime => (since' # NoTime /\ since' >= since)
     /\ (pc = "notify" /\ pc' = "sleep" /\ outcome' = "completed") =>
          since' = IF ReturnedTimes # {}
                   THEN latestOf(ReturnedTimes \cup ({since} \ {NoTime}))
                   ELSE IF since = NoTime THEN requestStartTime
                   ELSE since]_vars

\* The second completed cycle fetched only a thread older than the cursor
\* the first cycle returned, and the cursor stayed.
C35_Witness ==
  /\ pc = "sleep" /\ polls = 2 /\ outcome = "completed" /\ lastCycle.completed
  /\ rawThreads # << >>
  /\ \A i \in DOMAIN rawThreads : rawThreads[i].updatedAt < since

\* C36: what a cycle delivered before it aborted with an exception is not
\* delivered again by a later cycle; stated for the cycle that follows the
\* aborted one.
C36_AbortedSendsNotRepeated ==
  (polls >= 2 /\ ~lastCycle.completed) =>
    \A i, j \in DOMAIN sent :
      (sent[i].poll = polls - 1 /\ sent[j].poll = polls) =>
        ~SameNotification(sent[i], sent[j])

\* The createdAt values of a list of activities, in order.
CreatedAts(activities) == [i \in DOMAIN activities |-> activities[i].createdAt]

\* C37: transformTimeline gives the same createdAt values whenever it is
\* applied to the same raw timeline: shaping it at any other poll time
\* yields the timestamps it yielded this time.
C37_TimestampsDeterministic ==
  transformed =>
    \A later \in Times :
      CreatedAts(transformTimeline(timeline, later)) = CreatedAts(shaped)

\* C38: at most one daemon polling loop is running at any time, and no
\* daemon is spawned while an earlier one is alive, however concurrent
\* `gh-ping start` invocations interleave.
C38_SingleDaemon ==
  Cardinality({i \in Starts : daemonState[i] = "running"}) <= 1

\* The most recent n of the events 1..count, oldest first.
MostRecent(count, n) ==
  LET len == IF count < n THEN count ELSE n
  IN [i \in 1..len |-> count - len + i]

====
